---- MODULE Spec2Model ----
(***************************************************************************)
(* Verification model of OrganisedSound.  The analysis scripts: the        *)
(* latest-wins resolvers, the composite indices, the Friedman / Wilcoxon   *)
(* sample selection, the Holm correction, the record loaders, the long,    *)
(* wide and missingness tables, block_position and the bootstrap           *)
(* intervals.  The survey backends: the participant store, the rater       *)
(* sessions and the ranged clip responses.                                 *)
(***************************************************************************)
EXTENDS Integers, Sequences, FiniteSets, TLC

(***************************************************************************)
(* Bounds of the model.                                                    *)
(***************************************************************************)
MaxRecords == 3
MaxTimestamp == 2
NumParticipants == 4
MaxPvals == 3
PScale == 6
MaxBlockRecords == 2

(***************************************************************************)
(* Python's None / pandas' NaT for a timestamp that is absent or that      *)
(* parse_timestamp could not parse.  Parsed timestamps are 1..MaxTimestamp.*)
(***************************************************************************)
NoTimestamp == 0

VARIABLES
  records,     \* the raw submissions, in ingestion order
  resolver,    \* which resolver ran on `records` ("none" before any ran)
  section,     \* the section_key argument of latest_by_section ("" = all keys)
  canonical,   \* the resolver's output on `records`
  reresolved,  \* the resolver's output on `canonical`
  rerun,       \* the resolver's output on `records`, second run
  pass,        \* 0: loaded, 1: resolved, 2: resolved again
  construct,   \* the construct whose composite index is computed
  row,         \* one (participant, condition) row: item -> value or NaN
  index,       \* the composite of the row, per function that computed it
  notna,       \* item X of blocks_df: [participant][condition] has a value
  stats_pc,    \* the step of the statistics loop for item X
  friedman,    \* the row friedman_item returned
  wilcoxon,    \* the rows wilcoxon_pairs returned
  describe,    \* the rows describe_by_condition returned
  pvals,       \* the raw p-values handed to holm_correction
  adj,         \* the adjusted p-values it returned
  holm_done,   \* holm_correction has returned
  tbl_records, \* the canonical records handed to the table builders
  tables_pc,   \* the step of the script that builds the tables
  long_df,     \* the long table
  wide_df,     \* the wide table
  missing_df,  \* the missingness report
  warnings,    \* the warnings written to the log
  pre_df,      \* analyse_tz5_os_study_v2: the pre rows of build_tables
  post_df,     \* analyse_tz5_os_study_v2: the post rows of build_tables
  blocks_df,   \* analyse_tz5_os_study_v2: the merged rows of build_tables
  raw_data,    \* the parsed JSON document handed to load_records
  loaded,      \* what load_records returned or raised ("none" before the call)
  order_raw,   \* the order string of the participant's meta section (<<>> = none)
  attempted,   \* per condition: a pre or post record exists, and its timestamps
  position_pc, \* which script derives block_position
  block_position, \* block_position of each condition (NoPosition = null)
  order_warnings, \* the warnings detect_order_issues returned
  boot_pc,      \* which script computes the intervals, and its step
  seed,         \* the seed handed to np.random.default_rng
  cells,        \* first run: the data of each cell
  cells_again,  \* second run: the data of each cell
  order_again,  \* second run: the order in which the cells are resampled
  ci,           \* first run: the interval of each cell
  ci_again,     \* second run: the interval of each cell
  scores,       \* item X of blocks_df, every cell filled: [participant][condition]
  scipy_all_zero, \* what scipy's wilcoxon does when every difference is zero
  degenerate_pc, \* the step of the statistics on scores
  friedman_out, \* the row friedman_item returned on scores
  wilcoxon_out, \* what wilcoxon_pairs returned or raised on scores
  nested_doc,   \* a parsed JSON document: mappings and sequences nested in each other
  nested_pc,    \* which loader reads the document
  nested_out,   \* the submissions the loader returned, or what it raised
  participants, \* the participants table: session_meta by participant_id
  response_sections, \* the response_sections table, rows in order of their id
  tx,           \* the save_section call each worker thread is in, with what it has read
  calls,        \* the number of save_section calls begun
  last_ok,      \* the payload of the most recent save of each key that returned ok
  files,        \* the names of the video files in CLIPS_DIR
  clips,        \* the clips table: clip_id and filename of each row
  next_clip_id, \* the next value of the clip_id sequence
  session,      \* the sessions row of the rater's token: its stored playlist
  ratings,      \* the clip ids the token has a ratings row for
  session_end,  \* whether the token has a session_end row
  consent_ok,   \* whether a save_consent call of the token has returned ok
  consent_reply, \* the status of the last save_consent call
  state_reply,  \* the last session_state response for the token
  range_request, \* the size of the clip file and the Range header of the request
  range_response \* the response of range_file_response

resolverVars == <<records, resolver, section, canonical, reresolved, rerun, pass>>
compositeVars == <<construct, row, index>>
statsVars == <<notna, stats_pc, friedman, wilcoxon, describe>>

holmVars == <<pvals, adj, holm_done>>

tablesVars ==
  <<tbl_records, tables_pc, long_df, wide_df, missing_df, warnings, pre_df, post_df,
    blocks_df>>

loadVars == <<raw_data, loaded>>

positionVars == <<order_raw, attempted, position_pc, block_position, order_warnings>>

bootstrapVars == <<boot_pc, seed, cells, cells_again, order_again, ci, ci_again>>

degenerateVars == <<scores, scipy_all_zero, degenerate_pc, friedman_out, wilcoxon_out>>

nestedVars == <<nested_doc, nested_pc, nested_out>>

sectionVars == <<participants, response_sections, tx, calls, last_ok>>

raterVars == <<files, clips, next_clip_id, session, ratings, session_end, consent_ok, consent_reply, state_reply>>

rangeVars == <<range_request, range_response>>

vars == <<resolverVars, compositeVars, statsVars, holmVars, tablesVars, loadVars, positionVars, bootstrapVars, degenerateVars, nestedVars, sectionVars, raterVars, rangeVars>>

\* what an operation on the submissions leaves alone
notResolverVars == <<compositeVars, statsVars, holmVars, tablesVars, loadVars, positionVars, bootstrapVars, degenerateVars, nestedVars, sectionVars, raterVars, rangeVars>>
\* what an operation on a wide row leaves alone
notCompositeVars == <<resolverVars, statsVars, holmVars, tablesVars, loadVars, positionVars, bootstrapVars, degenerateVars, nestedVars, sectionVars, raterVars, rangeVars>>
\* what a step of the statistics leaves alone
notStatsVars == <<resolverVars, compositeVars, holmVars, tablesVars, loadVars, positionVars, bootstrapVars, degenerateVars, nestedVars, sectionVars, raterVars, rangeVars>>
\* what the Holm correction leaves alone
notHolmVars == <<resolverVars, compositeVars, statsVars, tablesVars, loadVars, positionVars, bootstrapVars, degenerateVars, nestedVars, sectionVars, raterVars, rangeVars>>
\* what load_records leaves alone
notLoadVars == <<resolverVars, compositeVars, statsVars, holmVars, tablesVars, positionVars, bootstrapVars, degenerateVars, nestedVars, sectionVars, raterVars, rangeVars>>
\* what a table builder leaves alone
notTablesVars == <<resolverVars, compositeVars, statsVars, holmVars, loadVars, positionVars, bootstrapVars, degenerateVars, nestedVars, sectionVars, raterVars, rangeVars>>
\* what the derivation of block_position leaves alone
notPositionVars == <<resolverVars, compositeVars, statsVars, holmVars, tablesVars, loadVars, bootstrapVars, degenerateVars, nestedVars, sectionVars, raterVars, rangeVars>>
\* what a bootstrap summary leaves alone
notBootstrapVars == <<resolverVars, compositeVars, statsVars, holmVars, tablesVars, loadVars, positionVars, degenerateVars, nestedVars, sectionVars, raterVars, rangeVars>>
\* what a test on scored data leaves alone
notDegenerateVars == <<resolverVars, compositeVars, statsVars, holmVars, tablesVars, loadVars, positionVars, bootstrapVars, nestedVars, sectionVars, raterVars, rangeVars>>
\* what loading a nested document leaves alone
notNestedVars == <<resolverVars, compositeVars, statsVars, holmVars, tablesVars, loadVars, positionVars, bootstrapVars, degenerateVars, sectionVars, raterVars, rangeVars>>
\* what the participant survey backend leaves alone
notSectionVars == <<resolverVars, compositeVars, statsVars, holmVars, tablesVars, loadVars, positionVars, bootstrapVars, degenerateVars, nestedVars, raterVars, rangeVars>>
\* what the rater survey backend leaves alone
notRaterVars == <<resolverVars, compositeVars, statsVars, holmVars, tablesVars, loadVars, positionVars, bootstrapVars, degenerateVars, nestedVars, sectionVars, rangeVars>>
\* what serving a clip leaves alone
notRangeVars == <<resolverVars, compositeVars, statsVars, holmVars, tablesVars, loadVars, positionVars, bootstrapVars, degenerateVars, nestedVars, sectionVars, raterVars>>

(***************************************************************************)
(* Raw submissions.                                                        *)
(***************************************************************************)
ParticipantIds == {"", "P1"}
SectionKeys == {"block_A_pre", "block_A_post"}
Timestamps == 1..MaxTimestamp

Heads ==
  [participant_id : ParticipantIds, section_key : SectionKeys,
   updated_at : {NoTimestamp} \cup Timestamps]

\* every submission carries its own payload: the payload of the i-th raw
\* submission is the token i
RawList(h) ==
  [i \in 1..Len(h) |->
     [participant_id |-> h[i].participant_id,
      section_key |-> h[i].section_key,
      updated_at |-> h[i].updated_at,
      payload |-> i]]

Key(rec) == <<rec.participant_id, rec.section_key>>

\* position in `latest` (a dict kept as the list of the indices it holds, in
\* insertion order) of the entry for the key of rec; 0 when the key is not in it
Slot(recs, latest, rec) ==
  IF \E j \in 1..Len(latest) : Key(recs[latest[j]]) = Key(rec)
  THEN CHOOSE j \in 1..Len(latest) : Key(recs[latest[j]]) = Key(rec)
  ELSE 0

Values(recs, latest) == [j \in 1..Len(latest) |-> recs[latest[j]]]

(***************************************************************************)
(* Results_5/io_ingest.py: select_latest                                   *)
(***************************************************************************)
\* mutant: the timestamps are never compared, the later record always wins
select_latest_step_no_compare(recs, latest, i) ==
  LET rec == recs[i]
      j == Slot(recs, latest, rec)
  IN IF rec.participant_id = "" \/ rec.section_key = "" THEN latest
     ELSE IF j = 0 THEN Append(latest, i)
     ELSE [latest EXCEPT ![j] = i]

\* mutant: `t_new > t_old` instead of `t_new >= t_old`
select_latest_step_strict(recs, latest, i) ==
  LET rec == recs[i]
      j == Slot(recs, latest, rec)
      t_new == rec.updated_at
      t_old == recs[latest[j]].updated_at
  IN IF rec.participant_id = "" \/ rec.section_key = "" THEN latest
     ELSE IF j = 0 THEN Append(latest, i)
     ELSE IF t_new # NoTimestamp /\ t_old # NoTimestamp
          THEN IF t_new > t_old THEN [latest EXCEPT ![j] = i] ELSE latest
     ELSE IF t_new # NoTimestamp /\ t_old = NoTimestamp
          THEN [latest EXCEPT ![j] = i]
     ELSE [latest EXCEPT ![j] = i]

\* mutant: a record that wins is added next to the one it should replace
select_latest_step_append(recs, latest, i) ==
  LET rec == recs[i]
  IN IF rec.participant_id = "" \/ rec.section_key = "" THEN latest
     ELSE Append(latest, i)

\* one iteration of the loop over records
select_latest_step(recs, latest, i) ==
  LET rec == recs[i]
      j == Slot(recs, latest, rec)
      t_new == rec.updated_at
      t_old == recs[latest[j]].updated_at
  IN IF rec.participant_id = "" \/ rec.section_key = "" THEN latest
     ELSE IF j = 0 THEN Append(latest, i)
     ELSE IF t_new # NoTimestamp /\ t_old # NoTimestamp
          THEN IF t_new >= t_old THEN [latest EXCEPT ![j] = i] ELSE latest
     ELSE IF t_new # NoTimestamp /\ t_old = NoTimestamp
          THEN [latest EXCEPT ![j] = i]
     ELSE [latest EXCEPT ![j] = i]   \* "fall back to keeping the later record"

RECURSIVE select_latest_loop(_, _, _)
select_latest_loop(recs, latest, i) ==
  IF i > Len(recs) THEN latest
  ELSE select_latest_loop(recs, select_latest_step(recs, latest, i), i + 1)

\* mutant: the values are returned newest key first
select_latest_reversed(recs) ==
  LET latest == select_latest_loop(recs, <<>>, 1)
  IN [j \in 1..Len(latest) |-> recs[latest[Len(latest) + 1 - j]]]

select_latest(recs) == Values(recs, select_latest_loop(recs, <<>>, 1))

(***************************************************************************)
(* Results_5/analyse_tz5_os_study_v2.py: latest_per_participant_section    *)
(***************************************************************************)
latest_per_participant_section_step(recs, latest, idx) ==
  LET r == recs[idx]
      j == Slot(recs, latest, r)
      curr_ts == r.updated_at
      prev_ts == recs[latest[j]].updated_at
      prev_idx == latest[j]
  IN IF r.participant_id = "" \/ r.section_key = "" THEN latest
     ELSE IF j = 0 THEN Append(latest, idx)
     ELSE IF curr_ts # NoTimestamp /\ (prev_ts = NoTimestamp \/ curr_ts >= prev_ts)
          THEN [latest EXCEPT ![j] = idx]
     ELSE IF curr_ts = NoTimestamp /\ prev_ts = NoTimestamp /\ idx >= prev_idx
          THEN [latest EXCEPT ![j] = idx]
     ELSE latest

RECURSIVE latest_per_participant_section_loop(_, _, _)
latest_per_participant_section_loop(recs, latest, idx) ==
  IF idx > Len(recs) THEN latest
  ELSE latest_per_participant_section_loop(
         recs, latest_per_participant_section_step(recs, latest, idx), idx + 1)

latest_per_participant_section(recs) ==
  Values(recs, latest_per_participant_section_loop(recs, <<>>, 1))

(***************************************************************************)
(* Results/generate_results.py: latest_by_section                          *)
(***************************************************************************)
RECURSIVE Filter(_, _, _)
\* the rows of seq, from row i on, whose index is in keep, in order
Filter(seq, keep, i) ==
  IF i > Len(seq) THEN <<>>
  ELSE (IF i \in keep THEN <<seq[i]>> ELSE <<>>) \o Filter(seq, keep, i + 1)

\* DataFrame.sort_values("updated_at"): ascending, NaT last in their original
\* order; the default kind is quicksort, which is not stable, so rows with
\* equal timestamps may come out in either order.  The set of row orders the
\* call may produce.
sort_values(sub) ==
  {q \in Permutations(1..Len(sub)) :
     \A a, b \in 1..Len(sub) :
       a < b =>
         LET ta == sub[q[a]].updated_at
             tb == sub[q[b]].updated_at
         IN \/ ta # NoTimestamp /\ tb # NoTimestamp /\ ta <= tb
            \/ ta # NoTimestamp /\ tb = NoTimestamp
            \/ ta = NoTimestamp /\ tb = NoTimestamp /\ q[a] < q[b]}

\* groupby("participant_id").tail(1): the last row of every participant
tail_1(sorted) ==
  Filter(sorted,
         {i \in 1..Len(sorted) :
            \A k \in (i + 1)..Len(sorted) :
              sorted[k].participant_id # sorted[i].participant_id},
         1)

latest_by_section(df, section_key, q) ==
  LET sub == Filter(df, {i \in 1..Len(df) : df[i].section_key = section_key}, 1)
  IN tail_1([i \in 1..Len(sub) |-> sub[q[i]]])

(***************************************************************************)
(* Results_2/os_results_from_json.py: merge_pre_post.pick_last             *)
(***************************************************************************)
\* g.sort_values(["_t", "_ord"]): a stable lexicographic sort, NaT last
sort_values_t_ord(g) ==
  CHOOSE q \in Permutations(1..Len(g)) :
    \A a, b \in 1..Len(g) :
      a < b =>
        LET ta == g[q[a]].updated_at
            tb == g[q[b]].updated_at
        IN \/ ta # NoTimestamp /\ tb # NoTimestamp /\ ta < tb
           \/ ta # NoTimestamp /\ tb = NoTimestamp
           \/ ta = tb /\ q[a] < q[b]

\* g: the rows of one (participant_id, condition) group of one phase, by _ord
pick_last(g) ==
  IF \E i \in 1..Len(g) : g[i].updated_at # NoTimestamp
  THEN g[sort_values_t_ord(g)[Len(g)]]
  ELSE g[Len(g)]

\* the groups of groupby(["participant_id", "condition"]) of the pre and of
\* the post frame; rows without a participant id were dropped before
GroupKeys ==
  <<<<"P1", "block_A_pre">>, <<"P1", "block_A_post">>>>

RECURSIVE apply_pick_last(_, _)
apply_pick_last(df, n) ==
  IF n > Len(GroupKeys) THEN <<>>
  ELSE LET g == Filter(df, {i \in 1..Len(df) : Key(df[i]) = GroupKeys[n]}, 1)
       IN (IF g = <<>> THEN <<>> ELSE <<pick_last(g)>>) \o apply_pick_last(df, n + 1)

(***************************************************************************)
(* The resolvers as operations on the loaded submissions.                  *)
(***************************************************************************)
ResolverInit ==
  /\ \E n \in 0..MaxRecords : \E h \in [1..n -> Heads] : records = RawList(h)
  /\ resolver = "none"
  /\ section = ""
  /\ canonical = <<>>
  /\ reresolved = <<>>
  /\ rerun = <<>>
  /\ pass = 0

SelectLatest ==
  /\ pass = 0
  /\ resolver' = "select_latest"
  /\ canonical' = select_latest(records)
  /\ pass' = 1
  /\ UNCHANGED <<records, section, reresolved, rerun, notResolverVars>>

LatestPerParticipantSection ==
  /\ pass = 0
  /\ resolver' = "latest_per_participant_section"
  /\ canonical' = latest_per_participant_section(records)
  /\ pass' = 1
  /\ UNCHANGED <<records, section, reresolved, rerun, notResolverVars>>

LatestBySection ==
  /\ pass = 0
  /\ \E section_key \in SectionKeys :
       \E q \in sort_values(Filter(records,
                   {i \in 1..Len(records) : records[i].section_key = section_key}, 1)) :
         /\ section' = section_key
         /\ canonical' = latest_by_section(records, section_key, q)
  /\ resolver' = "latest_by_section"
  /\ pass' = 1
  /\ UNCHANGED <<records, reresolved, rerun, notResolverVars>>

PickLast ==
  /\ pass = 0
  /\ resolver' = "pick_last"
  /\ canonical' = apply_pick_last(records, 1)
  /\ pass' = 1
  /\ UNCHANGED <<records, section, reresolved, rerun, notResolverVars>>

\* the resolver run on its own output, and once more on the raw input
ResolveAgain ==
  /\ pass = 1
  /\ resolver \in {"select_latest", "latest_per_participant_section"}
  /\ reresolved' = IF resolver = "select_latest"
                   THEN select_latest(canonical)
                   ELSE latest_per_participant_section(canonical)
  /\ rerun' = IF resolver = "select_latest"
              THEN select_latest(records)
              ELSE latest_per_participant_section(records)
  /\ pass' = 2
  /\ UNCHANGED <<records, resolver, section, canonical, notResolverVars>>

ResolverNext ==
  \/ SelectLatest
  \/ LatestPerParticipantSection
  \/ LatestBySection
  \/ PickLast
  \/ ResolveAgain

(***************************************************************************)
(* Composite indices.  A Likert value is an integer of the scale; NaN is   *)
(* a missing value (None, NaN).  A composite is the fraction num / den; a  *)
(* composite with den = 0 is NaN.                                          *)
(***************************************************************************)
NaN == 0
scale_min == 1
scale_max == 7

\* the Likert values the rows of the model draw from
LikertSample == {scale_min, 4, scale_max}

NaNIndex == [num |-> 0, den |-> 0]
IsNaN(x) == x.den = 0
\* equality of two composites as numbers
SameNumber(x, y) ==
  IF IsNaN(x) \/ IsNaN(y) THEN IsNaN(x) /\ IsNaN(y)
  ELSE x.num * y.den = y.num * x.den

RECURSIVE SumSeq(_)
SumSeq(vals) == IF vals = <<>> THEN 0 ELSE Head(vals) + SumSeq(Tail(vals))

Present(vals) == Filter(vals, {i \in 1..Len(vals) : vals[i] # NaN}, 1)

\* DataFrame.mean(axis=1, skipna=True) of one row
mean_skipna(vals) ==
  IF Present(vals) = <<>> THEN NaNIndex
  ELSE [num |-> SumSeq(Present(vals)), den |-> Len(Present(vals))]

\* DataFrame.mean(axis=1, skipna=False) of one row
mean_keepna(vals) ==
  IF Len(Present(vals)) < Len(vals) \/ vals = <<>> THEN NaNIndex
  ELSE [num |-> SumSeq(vals), den |-> Len(vals)]

\* x - y of two columns
minus(x, y) ==
  IF IsNaN(x) \/ IsNaN(y) THEN NaNIndex
  ELSE [num |-> x.num * y.den - y.num * x.den, den |-> x.den * y.den]

\* Results_5/config.py: CONSTRUCTS
ConstructNames == {"Intermediality Index", "Agency Index", "Mismatch Index"}

ConstructItems(c) ==
  CASE c = "Intermediality Index" -> <<"B_1", "B_2", "B_3", "B_4", "B_5", "B_6">>
    [] c = "Agency Index" -> <<"A_2", "A_3", "A_4", "A_6">>
    [] c = "Mismatch Index" -> <<"B_7", "B_8">>

ConstructReverse(c) ==
  CASE c = "Intermediality Index" -> {"B_5", "B_6"}
    [] c = "Agency Index" -> {"A_6"}
    [] c = "Mismatch Index" -> {}

ItemSet(c) == {ConstructItems(c)[i] : i \in 1..Len(ConstructItems(c))}

\* Results_5/transform.py: reverse_code
reverse_code(value) ==
  IF value = NaN THEN NaN ELSE scale_max + scale_min - value

\* Results_5/transform.py: compute_composites, for construct c on row r
compute_composites(c, r) ==
  LET items == ConstructItems(c)
      tmp == [i \in 1..Len(items) |->
                IF items[i] \in ConstructReverse(c)
                THEN reverse_code(r[items[i]])
                ELSE r[items[i]]]
  IN mean_skipna(tmp)

\* `8 - df[col]` of the analysis scripts
eight_minus(value) == IF value = NaN THEN NaN ELSE 8 - value

\* Results_5/analyse_tz5_os_study_v2.py
compute_intermediality_index(r) ==
  mean_keepna(<<r["B_1"], r["B_2"], r["B_3"], r["B_4"],
                eight_minus(r["B_5"]), eight_minus(r["B_6"])>>)

compute_mismatch_index(r) ==
  mean_keepna(<<eight_minus(r["B_7"]), r["B_8"]>>)

compute_agency_index(r) ==
  minus(mean_keepna(<<r["A_2"], r["A_3"], r["A_4"]>>),
        IF r["A_6"] = NaN THEN NaNIndex ELSE [num |-> r["A_6"], den |-> 1])

\* Results_2/os_results_from_json.py: main, the composite indices
intermediality_index(r) ==
  minus(mean_skipna(<<r["B_1"], r["B_2"], r["B_3"], r["B_4"]>>),
        mean_skipna(<<r["B_5"], r["B_6"]>>))

agency_index(r) ==
  minus(mean_skipna(<<r["A_2"], r["A_3"], r["A_4"]>>),
        mean_skipna(<<r["A_6"]>>))

CompositeInit ==
  /\ construct \in ConstructNames
  /\ row \in [ItemSet(construct) -> {NaN} \cup LikertSample]
  /\ index = [f \in {} |-> NaNIndex]

ComputeComposites ==
  /\ "compute_composites" \notin DOMAIN index
  /\ index' = index @@ ("compute_composites" :> compute_composites(construct, row))
  /\ UNCHANGED <<construct, row, notCompositeVars>>

ComputeIntermedialityIndex ==
  /\ construct = "Intermediality Index"
  /\ "compute_intermediality_index" \notin DOMAIN index
  /\ index' = index @@ ("compute_intermediality_index" :> compute_intermediality_index(row))
  /\ UNCHANGED <<construct, row, notCompositeVars>>

ComputeMismatchIndex ==
  /\ construct = "Mismatch Index"
  /\ "compute_mismatch_index" \notin DOMAIN index
  /\ index' = index @@ ("compute_mismatch_index" :> compute_mismatch_index(row))
  /\ UNCHANGED <<construct, row, notCompositeVars>>

ComputeAgencyIndex ==
  /\ construct = "Agency Index"
  /\ "compute_agency_index" \notin DOMAIN index
  /\ index' = index @@ ("compute_agency_index" :> compute_agency_index(row))
  /\ UNCHANGED <<construct, row, notCompositeVars>>

IntermedialityIndex ==
  /\ construct = "Intermediality Index"
  /\ "intermediality_index" \notin DOMAIN index
  /\ index' = index @@ ("intermediality_index" :> intermediality_index(row))
  /\ UNCHANGED <<construct, row, notCompositeVars>>

AgencyIndex ==
  /\ construct = "Agency Index"
  /\ "agency_index" \notin DOMAIN index
  /\ index' = index @@ ("agency_index" :> agency_index(row))
  /\ UNCHANGED <<construct, row, notCompositeVars>>

CompositeNext ==
  \/ ComputeComposites
  \/ ComputeIntermedialityIndex
  \/ ComputeMismatchIndex
  \/ ComputeAgencyIndex
  \/ IntermedialityIndex
  \/ AgencyIndex

(***************************************************************************)
(* Hypothesis tests for one item X.  blocks_df holds one row per           *)
(* (participant, condition); notna says which rows have a value of X.      *)
(* The tests themselves are scipy's: "scipy" stands for the number scipy   *)
(* returns, "null" for None.  `rows` is the sample a step used.            *)
(***************************************************************************)
Participants == 1..NumParticipants
CONDITION_ORDER == <<"A", "B", "C">>
Conditions == {"A", "B", "C"}

\* df.pivot_table(index="participant_id", columns="condition", values=item,
\* aggfunc="first"): a condition without any value gives no column
Columns(df) == {c \in Conditions : \E x \in Participants : df[x][c]}

\* wide[cols].dropna(): the participants with a value in every column of cols
dropna(df, cols) ==
  {x \in Participants : (\E c \in Conditions : df[x][c]) /\ (\A c \in cols : df[x][c])}

NoResult == [by |-> "none"]

\* Results_5/analyse_tz5_os_study_v2.py: friedman_item
friedman_item(df) ==
  LET out == [by |-> "analyse_tz5_os_study_v2", n |-> 0, chi2 |-> "null", p |-> "null",
              kendalls_w |-> "null", note |-> "", error |-> "none", rows |-> {}]
      wide == dropna(df, Conditions)
  IN IF ~(Conditions \subseteq Columns(df))
     THEN [out EXCEPT !.note = "missing conditions in data"]
     ELSE IF Cardinality(wide) < 3
     THEN [out EXCEPT !.note = "insufficient complete cases"]
     ELSE [out EXCEPT !.n = Cardinality(wide), !.chi2 = "scipy", !.p = "scipy",
                      !.kendalls_w = "scipy", !.rows = wide]

\* Results_2/os_results_from_json.py: friedman_item
friedman_item_results_2(df) ==
  LET out == [by |-> "os_results_from_json", n |-> 0, chi2 |-> "null", p |-> "null",
              kendalls_w |-> "null", note |-> "", error |-> "none", rows |-> {}]
      wide == IF Conditions \subseteq Columns(df)
              THEN dropna(df, Conditions)
              ELSE dropna(df, Columns(df))
  IN IF Cardinality(wide) < 3
     THEN [out EXCEPT !.note = "insufficient complete cases"]
     ELSE IF ~(Conditions \subseteq Columns(df))
     THEN [out EXCEPT !.error = "KeyError"]     \* wide["A"], wide["B"], wide["C"]
     ELSE [out EXCEPT !.n = Cardinality(wide), !.chi2 = "scipy", !.p = "scipy",
                      !.kendalls_w = "scipy", !.rows = wide]

Pairs == <<<<"A", "B">>, <<"A", "C">>, <<"B", "C">>>>

\* one row of wilcoxon_pairs, before the Holm correction
wilcoxon_row(w, pair) ==
  IF Cardinality(w) < 3
  THEN [pair |-> pair, n |-> Cardinality(w), stat |-> "null", p |-> "null", rows |-> w]
  ELSE [pair |-> pair, n |-> Cardinality(w), stat |-> "scipy", p |-> "scipy", rows |-> w]

\* mutant: the Holm correction counts every pair, tested or not
with_p_holm_all_pairs(rows) ==
  [i \in 1..Len(rows) |->
     [pair |-> rows[i].pair, n |-> rows[i].n, stat |-> rows[i].stat,
      p |-> rows[i].p, rows |-> rows[i].rows,
      p_holm |-> IF rows[i].p # "null" THEN "holm" ELSE "null",
      m |-> IF rows[i].p # "null" THEN Len(rows) ELSE 0]]

\* the Holm step of wilcoxon_pairs: p_holm for the rows with a p-value, with
\* m the number of those rows
with_p_holm(rows) ==
  LET valid_idx == {i \in 1..Len(rows) : rows[i].p # "null"}
  IN [i \in 1..Len(rows) |->
        [pair |-> rows[i].pair, n |-> rows[i].n, stat |-> rows[i].stat,
         p |-> rows[i].p, rows |-> rows[i].rows,
         p_holm |-> IF i \in valid_idx THEN "holm" ELSE "null",
         m |-> IF i \in valid_idx THEN Cardinality(valid_idx) ELSE 0]]

\* mutant: every pair is tested on the participants complete in all conditions
wilcoxon_pairs_listwise(df) ==
  IF ~(Conditions \subseteq Columns(df))
  THEN [note |-> "missing conditions in data", rows |-> <<>>]
  ELSE [note |-> "",
        rows |-> with_p_holm([i \in 1..Len(Pairs) |->
                   wilcoxon_row(dropna(df, Conditions), Pairs[i])])]

\* Results_5/analyse_tz5_os_study_v2.py and Results_2/os_results_from_json.py:
\* wilcoxon_pairs (the two functions are the same line for line)
wilcoxon_pairs(df) ==
  IF ~(Conditions \subseteq Columns(df))
  THEN [note |-> "missing conditions in data", rows |-> <<>>]
  ELSE [note |-> "",
        rows |-> with_p_holm([i \in 1..Len(Pairs) |->
                   wilcoxon_row(dropna(df, {Pairs[i][1], Pairs[i][2]}), Pairs[i])])]

\* describe_by_condition: df.loc[df["condition"] == c, item].dropna()
describe_by_condition(df) ==
  [i \in 1..Len(CONDITION_ORDER) |->
     LET s == {x \in Participants : df[x][CONDITION_ORDER[i]]}
     IN [condition |-> CONDITION_ORDER[i], n |-> Cardinality(s),
         mean |-> IF s = {} THEN "null" ELSE "numpy", rows |-> s]]

StatsInit ==
  /\ notna \in [Participants -> [Conditions -> BOOLEAN]]
  /\ stats_pc = "friedman_item"
  /\ friedman = NoResult
  /\ wilcoxon = NoResult
  /\ describe = NoResult

\* save_stats_tables of analyse_tz5_os_study_v2.py: the first step for item X
FriedmanItem ==
  /\ stats_pc = "friedman_item"
  /\ friedman' = friedman_item(notna)
  /\ stats_pc' = "wilcoxon_pairs"
  /\ UNCHANGED <<notna, wilcoxon, describe, notStatsVars>>

\* main of os_results_from_json.py: the first step for item X; an exception
\* ends the script
FriedmanItemResults2 ==
  /\ stats_pc = "friedman_item"
  /\ friedman' = friedman_item_results_2(notna)
  /\ stats_pc' = IF friedman_item_results_2(notna).error = "none"
                 THEN "wilcoxon_pairs" ELSE "raised"
  /\ UNCHANGED <<notna, wilcoxon, describe, notStatsVars>>

WilcoxonPairs ==
  /\ stats_pc = "wilcoxon_pairs"
  /\ wilcoxon' = wilcoxon_pairs(notna)
  /\ stats_pc' = "describe_by_condition"
  /\ UNCHANGED <<notna, friedman, describe, notStatsVars>>

DescribeByCondition ==
  /\ stats_pc = "describe_by_condition"
  /\ describe' = describe_by_condition(notna)
  /\ stats_pc' = "done"
  /\ UNCHANGED <<notna, friedman, wilcoxon, notStatsVars>>

StatsNext ==
  \/ FriedmanItem
  \/ FriedmanItemResults2
  \/ WilcoxonPairs
  \/ DescribeByCondition

\* no statistics are being computed
StatsIdle ==
  /\ notna = <<>>
  /\ stats_pc = "idle"
  /\ friedman = NoResult
  /\ wilcoxon = NoResult
  /\ describe = NoResult

(***************************************************************************)
(* Holm correction.  A p-value is the fraction k / PScale, kept as the     *)
(* integer k of 0..PScale, so that 1.0 is PScale and (m - i) * p is exact. *)
(***************************************************************************)
Min(a, b) == IF a <= b THEN a ELSE b

\* np.argsort(pvals): the default kind is quicksort, which is not stable, so
\* equal p-values may come out in either order.  The orders it may return.
argsort(ps) ==
  {order \in Permutations(1..Len(ps)) :
     \A a, b \in 1..Len(ps) : a < b => ps[order[a]] <= ps[order[b]]}

\* first loop: adj[idx] = min((m - i) * pvals[idx], 1.0), i counted from 0
holm_scale(ps, order) ==
  LET m == Len(ps)
  IN [idx \in 1..m |->
        LET a == CHOOSE x \in 1..m : order[x] = idx
        IN Min((m - (a - 1)) * ps[idx], PScale)]

RECURSIVE holm_monotone(_, _, _)
\* second loop, from position a down to the first position of order
holm_monotone(ad, order, a) ==
  IF a < 1 THEN ad
  ELSE holm_monotone(
         [ad EXCEPT ![order[a]] = Min(ad[order[a]], ad[order[a + 1]])], order, a - 1)

\* mutant: the monotonicity loop is left out
holm_correction_no_monotone(ps, order) == holm_scale(ps, order)

\* Results_2/os_results_from_json.py and Results_5/analyse_tz5_os_study_v2.py:
\* holm_correction (the two functions are the same line for line)
holm_correction(ps, order) == holm_monotone(holm_scale(ps, order), order, Len(ps) - 1)

HolmInit ==
  /\ \E m \in 0..MaxPvals : pvals \in [1..m -> 0..PScale]
  /\ adj = <<>>
  /\ holm_done = FALSE

HolmCorrection ==
  /\ ~holm_done
  /\ \E order \in argsort(pvals) : adj' = holm_correction(pvals, order)
  /\ holm_done' = TRUE
  /\ UNCHANGED <<pvals, notHolmVars>>

HolmNext == HolmCorrection

\* no correction is being computed
HolmIdle ==
  /\ pvals = <<>>
  /\ adj = <<>>
  /\ holm_done = FALSE

(***************************************************************************)
(* block_position.  Results_5 reads it off the order string of the         *)
(* participant's meta section; Results_2 ranks the timestamps of the       *)
(* participant's merged blocks.  An order string is kept as the sequence   *)
(* of its characters; one participant is followed.                         *)
(***************************************************************************)
MaxOrderLen == 3

\* no position: None in order_map.get(...).get(...), <NA> in the rank
NoPosition == 0

\* the characters an order string is drawn from
OrderChars == {"A", "B", "C", "-"}

\* Results_5/io_ingest.py: parse_order_string, re.findall(r"[ABC]", str(order_str))
parse_order_string(order_str) ==
  Filter(order_str, {i \in 1..Len(order_str) : order_str[i] \in {"A", "B", "C"}}, 1)

\* Results_5/transform.py: build_order_map for one participant,
\* {cond: i + 1 for i, cond in enumerate(letters)}: a repeated letter keeps its
\* last index; a letter not in the string has no entry
build_order_map(order_str) ==
  LET letters == parse_order_string(order_str)
  IN [cond \in Conditions |->
        LET at == {i \in 1..Len(letters) : letters[i] = cond}
        IN IF at = {} THEN NoPosition ELSE CHOOSE i \in at : \A j \in at : j <= i]

\* Results_2: _t_pre.fillna(_t_post)
t_any(block) == IF block.t_pre # NoTimestamp THEN block.t_pre ELSE block.t_post

\* analyse_tz5_os_study_v2.py: _t_post.fillna(_t_pre)
t_any_v2(block) == IF block.t_post # NoTimestamp THEN block.t_post ELSE block.t_pre

\* groupby("participant_id")["_t_any"].rank(method="first").astype("Int64") over
\* the merged rows of the participant, which the outer merge leaves sorted by
\* condition: NaT has no rank, equal timestamps rank in row order
rank_first_of(blocks, T(_)) ==
  LET rows == {k \in 1..Len(CONDITION_ORDER) : blocks[CONDITION_ORDER[k]].attempted}
      t(k) == T(blocks[CONDITION_ORDER[k]])
  IN [cond \in Conditions |->
        LET k == CHOOSE n \in 1..Len(CONDITION_ORDER) : CONDITION_ORDER[n] = cond
        IN IF k \notin rows \/ t(k) = NoTimestamp THEN NoPosition
           ELSE 1 + Cardinality({n \in rows :
                                   /\ t(n) # NoTimestamp
                                   /\ \/ t(n) < t(k)
                                      \/ t(n) = t(k) /\ n < k})]

\* Results_2: the rank of _t_any
rank_first(blocks) == rank_first_of(blocks, t_any)

\* analyse_tz5_os_study_v2.py: the rank of _t_any
rank_first_v2(blocks) == rank_first_of(blocks, t_any_v2)

\* Results_5/run_analysis.py: detect_order_issues for one participant: a row
\* without an order is skipped, and the letters of the others are counted
detect_order_issues(order) ==
  LET letters == Filter(order, {i \in 1..Len(order) : order[i] \in Conditions}, 1)
  IN IF order = <<>> THEN <<>>
     ELSE IF Len(letters) # 3 THEN <<[unexpected_order |-> order]>>
     ELSE <<>>

\* a condition the participant did not attempt has no record and no timestamp
NotAttempted == [attempted |-> FALSE, t_pre |-> NoTimestamp, t_post |-> NoTimestamp]

\* either the Results_5 script is about to run on a participant with an order
\* string, or the Results_2 script or the v2 script on a participant with
\* timestamped blocks
PositionInit ==
  /\ block_position = [cond \in Conditions |-> NoPosition]
  /\ order_warnings = <<>>
  /\ \/ /\ position_pc = "run_analysis"
        /\ \E n \in 0..MaxOrderLen : order_raw \in [1..n -> OrderChars]
        /\ \E S \in SUBSET Conditions :
             attempted = [cond \in Conditions |->
                            [NotAttempted EXCEPT !.attempted = cond \in S]]
     \/ /\ position_pc \in {"os_results_from_json", "analyse_tz5_os_study_v2"}
        /\ order_raw = <<>>
        /\ attempted \in [Conditions ->
                            {NotAttempted} \cup
                            [attempted : {TRUE}, t_pre : 0..MaxTimestamp,
                             t_post : 0..MaxTimestamp]]

\* Results_5: block_position = order_map.get(pid, {}).get(condition) on the rows
\* of the conditions that have a block record
BuildOrderMap ==
  /\ position_pc = "run_analysis"
  /\ block_position' = [cond \in Conditions |->
                          IF attempted[cond].attempted
                          THEN build_order_map(order_raw)[cond] ELSE NoPosition]
  /\ position_pc' = "detect_order_issues"
  /\ UNCHANGED <<order_raw, attempted, order_warnings, notPositionVars>>

\* Results_5/run_analysis.py: main, warnings.extend(detect_order_issues(...))
DetectOrderIssues ==
  /\ position_pc = "detect_order_issues"
  /\ order_warnings' = detect_order_issues(order_raw)
  /\ position_pc' = "logged"
  /\ UNCHANGED <<order_raw, attempted, block_position, notPositionVars>>

\* Results_2: merge_pre_post
MergePrePost ==
  /\ position_pc = "os_results_from_json"
  /\ block_position' = rank_first(attempted)
  /\ position_pc' = "done"
  /\ UNCHANGED <<order_raw, attempted, order_warnings, notPositionVars>>

\* analyse_tz5_os_study_v2.py: build_tables, the block_position column
BuildTablesPosition ==
  /\ position_pc = "analyse_tz5_os_study_v2"
  /\ block_position' = rank_first_v2(attempted)
  /\ position_pc' = "done_v2"
  /\ UNCHANGED <<order_raw, attempted, order_warnings, notPositionVars>>

PositionNext ==
  \/ BuildOrderMap
  \/ DetectOrderIssues
  \/ MergePrePost
  \/ BuildTablesPosition

\* no block_position is being derived
PositionIdle ==
  /\ order_raw = <<>>
  /\ attempted = [cond \in Conditions |-> NotAttempted]
  /\ position_pc = "idle"
  /\ order_warnings = <<>>
  /\ block_position = [cond \in Conditions |-> NoPosition]

(***************************************************************************)
(* The table builders of Results_5.  A section key is kept as the tuple of *)
(* its "_"-separated segments: "block_A_pre" is <<"block", "A", "pre">>.   *)
(* A raw payload value is None, a number, or a string that float() parses  *)
(* (numeric) or rejects.  The number 0 stands for NaN, so the raw numbers  *)
(* of the model are never 0.                                               *)
(***************************************************************************)
\* Results_5/config.py: ITEMS, in declaration order
ITEMS ==
  <<[item |-> "A_1", phase |-> "pre"], [item |-> "A_2", phase |-> "pre"],
    [item |-> "A_3", phase |-> "pre"], [item |-> "A_4", phase |-> "pre"],
    [item |-> "A_5", phase |-> "pre"], [item |-> "A_6", phase |-> "pre"],
    [item |-> "A_7", phase |-> "pre"], [item |-> "B_1", phase |-> "post"],
    [item |-> "B_2", phase |-> "post"], [item |-> "B_3", phase |-> "post"],
    [item |-> "B_4", phase |-> "post"], [item |-> "B_5", phase |-> "post"],
    [item |-> "B_6", phase |-> "post"], [item |-> "B_7", phase |-> "post"],
    [item |-> "B_8", phase |-> "post"], [item |-> "B_9", phase |-> "post"],
    [item |-> "B_10", phase |-> "post"], [item |-> "B_11", phase |-> "post"],
    [item |-> "B_12", phase |-> "post"]>>

ItemNames == {ITEMS[i].item : i \in 1..Len(ITEMS)}

\* [k for k, v in ITEMS.items() if v.get("phase") == phase]
ItemsOfPhase(phase) ==
  LET keep == {i \in 1..Len(ITEMS) : ITEMS[i].phase = phase}
      items == Filter(ITEMS, keep, 1)
  IN [i \in 1..Len(items) |-> items[i].item]

RawNone == [kind |-> "None", numeric |-> FALSE, v |-> 0]
RawNumber(n) == [kind |-> "number", numeric |-> TRUE, v |-> n]
RawNumericString(n) == [kind |-> "str", numeric |-> TRUE, v |-> n]
RawOtherString == [kind |-> "str", numeric |-> FALSE, v |-> 0]

\* the raw values the payloads of the model draw from: None, 4, 9, -3, "5", "abc"
RawSample ==
  {RawNone, RawNumber(4), RawNumber(9), RawNumber(-3), RawNumericString(5),
   RawOtherString}

\* the payload keys the model fills; every other key is absent
PayloadKeys == {"A_6", "B_1", "rank_A"}

\* payload.get(key)
payload_get(payload, key) == IF key \in DOMAIN payload THEN payload[key] ELSE RawNone

\* Results_5/transform.py: to_numeric
to_numeric(value) ==
  IF value.kind = "None" THEN NaN
  ELSE IF value.kind = "number" THEN value.v
  ELSE IF value.kind = "str" THEN (IF value.numeric THEN value.v ELSE NaN)
  ELSE NaN

\* re.match(r"block_([ABC])_(pre|post)$", sk): `$` also matches before a
\* trailing newline
re_match(sk) ==
  /\ Len(sk) = 3
  /\ sk[1] = "block"
  /\ sk[2] \in {"A", "B", "C"}
  /\ sk[3] \in {"pre", "post", "pre\n", "post\n"}

\* match.groups()
match_groups(sk) ==
  [condition |-> sk[2],
   phase |-> IF sk[3] \in {"pre", "pre\n"} THEN "pre" ELSE "post"]

\* mutant: a row is appended only for the items the payload holds
long_rows_of_present(rec) ==
  IF re_match(rec.section_key)
  THEN LET g == match_groups(rec.section_key)
           declared == ItemsOfPhase(g.phase)
           items == Filter(declared,
                           {i \in 1..Len(declared) : declared[i] \in DOMAIN rec.payload}, 1)
       IN [i \in 1..Len(items) |->
             [participant_id |-> rec.participant_id, condition |-> g.condition,
              phase |-> g.phase, item |-> items[i],
              value |-> to_numeric(payload_get(rec.payload, items[i]))]]
  ELSE <<>>

\* the rows build_blocks_long appends for one record
long_rows_of(rec) ==
  IF re_match(rec.section_key)
  THEN LET g == match_groups(rec.section_key)
           items == ItemsOfPhase(g.phase)
       IN [i \in 1..Len(items) |->
             [participant_id |-> rec.participant_id, condition |-> g.condition,
              phase |-> g.phase, item |-> items[i],
              value |-> to_numeric(payload_get(rec.payload, items[i]))]]
  ELSE IF rec.section_key = <<"end">>
  THEN LET present == {k \in 1..Len(CONDITION_ORDER) :
                         payload_get(rec.payload, "rank_" \o CONDITION_ORDER[k]).kind # "None"}
           conds == Filter(CONDITION_ORDER, present, 1)
       IN [i \in 1..Len(conds) |->
             [participant_id |-> rec.participant_id, condition |-> conds[i],
              phase |-> "end", item |-> "rank",
              value |-> to_numeric(payload_get(rec.payload, "rank_" \o conds[i]))]]
  ELSE <<>>

RECURSIVE build_blocks_long(_)
\* Results_5/transform.py: build_blocks_long
build_blocks_long(recs) ==
  IF recs = <<>> THEN <<>>
  ELSE long_rows_of(Head(recs)) \o build_blocks_long(Tail(recs))

\* sk.endswith("_" + word)
endswith(sk, word) == Len(sk) >= 2 /\ sk[Len(sk)] = word

\* the warnings detect_non_numeric appends for one record
non_numeric_of(rec) ==
  LET items == IF endswith(rec.section_key, "pre") THEN ItemsOfPhase("pre")
               ELSE IF endswith(rec.section_key, "post") THEN ItemsOfPhase("post")
               ELSE <<>>
      bad == {i \in 1..Len(items) :
                /\ payload_get(rec.payload, items[i]).kind # "None"
                /\ to_numeric(payload_get(rec.payload, items[i])) = NaN}
      hits == Filter(items, bad, 1)
  IN [i \in 1..Len(hits) |->
        [participant_id |-> rec.participant_id, section_key |-> rec.section_key,
         item |-> hits[i], raw |-> payload_get(rec.payload, hits[i])]]

RECURSIVE detect_non_numeric(_)
\* Results_5/run_analysis.py: detect_non_numeric
detect_non_numeric(recs) ==
  IF recs = <<>> THEN <<>>
  ELSE non_numeric_of(Head(recs)) \o detect_non_numeric(Tail(recs))

\* the participants of the table builders, in sorted order
TblParticipants == <<"P1", "P2">>

\* the last record of recs that is a block of (pid, condition, phase); 0 if none
last_block(recs, pid, condition, phase) ==
  LET hits == {i \in 1..Len(recs) :
                 /\ recs[i].participant_id = pid
                 /\ re_match(recs[i].section_key)
                 /\ match_groups(recs[i].section_key) = [condition |-> condition, phase |-> phase]}
  IN IF hits = {} THEN 0 ELSE CHOOSE i \in hits : \A j \in hits : j <= i

\* the row of build_blocks_wide for key (pid, condition): the pre row updated
\* with the post row; a column the row does not have is NaN in the frame
wide_row(recs, pid, condition) ==
  LET pre == last_block(recs, pid, condition, "pre")
      post == last_block(recs, pid, condition, "post")
      items == [i \in ItemNames |->
                  LET ph == (CHOOSE k \in 1..Len(ITEMS) : ITEMS[k].item = i)
                      src == IF ITEMS[ph].phase = "pre" THEN pre ELSE post
                  IN IF src = 0 THEN NaN
                     ELSE to_numeric(payload_get(recs[src].payload, i))]
  IN [participant_id |-> pid, condition |-> condition,
      pre |-> pre # 0, post |-> post # 0, items |-> items,
      composites |-> [c \in ConstructNames |-> compute_composites(c, items)]]

\* the keys of an inner join: sorted(set(pre_rows) & set(post_rows))
sorted_keys_inner(recs) ==
  LET all == [n \in 1..(Len(TblParticipants) * Len(CONDITION_ORDER)) |->
                <<TblParticipants[((n - 1) \div Len(CONDITION_ORDER)) + 1],
                  CONDITION_ORDER[((n - 1) % Len(CONDITION_ORDER)) + 1]>>]
      keep == {n \in 1..Len(all) :
                 /\ last_block(recs, all[n][1], all[n][2], "pre") # 0
                 /\ last_block(recs, all[n][1], all[n][2], "post") # 0}
  IN Filter(all, keep, 1)

\* sorted(set(pre_rows) | set(post_rows))
sorted_keys(recs) ==
  LET all == [n \in 1..(Len(TblParticipants) * Len(CONDITION_ORDER)) |->
                <<TblParticipants[((n - 1) \div Len(CONDITION_ORDER)) + 1],
                  CONDITION_ORDER[((n - 1) % Len(CONDITION_ORDER)) + 1]>>]
      keep == {n \in 1..Len(all) :
                 \/ last_block(recs, all[n][1], all[n][2], "pre") # 0
                 \/ last_block(recs, all[n][1], all[n][2], "post") # 0}
  IN Filter(all, keep, 1)

\* Results_5/transform.py: build_blocks_wide, compute_composites included
build_blocks_wide(recs) ==
  LET keys == sorted_keys(recs)
  IN [n \in 1..Len(keys) |-> wide_row(recs, keys[n][1], keys[n][2])]

RECURSIVE SumField(_, _)
\* the sum of a column over a set of rows
SumField(rows, f) ==
  IF rows = {} THEN 0
  ELSE LET r == CHOOSE x \in rows : TRUE
       IN f[r] + SumField(rows \ {r}, f)

\* mutant: n_missing aggregated with "count" instead of "sum"
build_missingness_report_count(long) ==
  LET df == {i \in 1..Len(long) : long[i].phase \in {"pre", "post"}}
      report ==
        {[participant_id |-> long[i].participant_id, condition |-> long[i].condition,
          phase |-> long[i].phase, item |-> long[i].item,
          n_missing |-> Cardinality({j \in df :
                          /\ long[j].participant_id = long[i].participant_id
                          /\ long[j].condition = long[i].condition
                          /\ long[j].phase = long[i].phase
                          /\ long[j].item = long[i].item}),
          n_total |-> Cardinality({j \in df :
                          /\ long[j].participant_id = long[i].participant_id
                          /\ long[j].condition = long[i].condition
                          /\ long[j].phase = long[i].phase
                          /\ long[j].item = long[i].item})] : i \in df}
      group(r) == {x \in report : /\ x.participant_id = r.participant_id
                                  /\ x.condition = r.condition
                                  /\ x.phase = r.phase}
      totals ==
        {[participant_id |-> r.participant_id, condition |-> r.condition,
          phase |-> r.phase, item |-> "__TOTAL__",
          n_missing |-> SumField(group(r), [x \in group(r) |-> x.n_missing]),
          n_total |-> SumField(group(r), [x \in group(r) |-> x.n_total])] : r \in report}
  IN IF long = <<>> THEN {} ELSE report \cup totals

\* Results_5/transform.py: build_missingness_report; the report is kept as the
\* set of its rows
build_missingness_report(long) ==
  LET df == {i \in 1..Len(long) : long[i].phase \in {"pre", "post"}}
      report ==
        {[participant_id |-> long[i].participant_id, condition |-> long[i].condition,
          phase |-> long[i].phase, item |-> long[i].item,
          n_missing |-> Cardinality({j \in df :
                          /\ long[j].participant_id = long[i].participant_id
                          /\ long[j].condition = long[i].condition
                          /\ long[j].phase = long[i].phase
                          /\ long[j].item = long[i].item
                          /\ long[j].value = NaN}),
          n_total |-> Cardinality({j \in df :
                          /\ long[j].participant_id = long[i].participant_id
                          /\ long[j].condition = long[i].condition
                          /\ long[j].phase = long[i].phase
                          /\ long[j].item = long[i].item})] : i \in df}
      group(r) == {x \in report : /\ x.participant_id = r.participant_id
                                  /\ x.condition = r.condition
                                  /\ x.phase = r.phase}
      totals ==
        {[participant_id |-> r.participant_id, condition |-> r.condition,
          phase |-> r.phase, item |-> "__TOTAL__",
          n_missing |-> SumField(group(r), [x \in group(r) |-> x.n_missing]),
          n_total |-> SumField(group(r), [x \in group(r) |-> x.n_total])] : r \in report}
  IN IF long = <<>> THEN {} ELSE report \cup totals

\* str.strip() of a section key: the trailing newline goes
strip(sk) ==
  IF sk = <<>> THEN sk
  ELSE [sk EXCEPT ![Len(sk)] = IF @ = "pre\n" THEN "pre"
                               ELSE IF @ = "post\n" THEN "post" ELSE @]

\* analyse_tz5_os_study_v2.py: load_records keeps str(sk).strip()
load_records_v2(recs) == [i \in 1..Len(recs) |-> [recs[i] EXCEPT !.section_key = strip(@)]]

\* str.upper() of a condition letter
upper(c) == IF c = "a" THEN "A" ELSE IF c = "b" THEN "B" ELSE IF c = "c" THEN "C" ELSE c

\* sk.startswith("block_")
startswith_block(sk) == Len(sk) >= 2 /\ sk[1] = "block"

\* pd.to_numeric(column, errors="coerce")
pd_to_numeric(value) == IF value.numeric THEN value.v ELSE NaN

\* the rows build_tables appends to pre_rows (phase "pre") or post_rows (phase
\* "post"), normalised, filtered on CONDITION_ORDER and coerced: a key that
\* starts with "block_" and ends with "_" + phase, of at least 3 parts, gives
\* the row of condition parts[1].upper()
phase_df(latest, phase) ==
  LET hits == {i \in 1..Len(latest) :
                 /\ startswith_block(latest[i].section_key)
                 /\ endswith(latest[i].section_key, phase)
                 /\ Len(latest[i].section_key) >= 3
                 /\ upper(latest[i].section_key[2]) \in Conditions}
      rows == Filter(latest, hits, 1)
      items == ItemsOfPhase(phase)
  IN [i \in 1..Len(rows) |->
        [participant_id |-> rows[i].participant_id,
         condition |-> upper(rows[i].section_key[2]),
         items |-> [k \in {items[n] : n \in 1..Len(items)} \cap DOMAIN rows[i].payload |->
                      pd_to_numeric(rows[i].payload[k])]]]

\* pd.merge(pre_df, post_df, on=["participant_id", "condition"], how="outer"):
\* one row per pair of a pre row and a post row of the same key, and one per
\* row without a partner; the frame is kept as the set of its rows, each
\* naming the pre row and the post row it joins (0 = none).  block_position is the rank of the
\* row's timestamp, and the records of these tables carry none.
merge_outer(pre, post) ==
  LET all == [n \in 1..(Len(TblParticipants) * Len(CONDITION_ORDER)) |->
                <<TblParticipants[((n - 1) \div Len(CONDITION_ORDER)) + 1],
                  CONDITION_ORDER[((n - 1) % Len(CONDITION_ORDER)) + 1]>>]
      of(df, k) == {i \in 1..Len(df) : <<df[i].participant_id, df[i].condition>> = k}
      pairs(k) ==
        IF of(pre, k) # {} /\ of(post, k) # {}
        THEN {<<i, j>> : i \in of(pre, k), j \in of(post, k)}
        ELSE {<<i, 0>> : i \in of(pre, k)} \cup {<<0, j>> : j \in of(post, k)}
  IN UNION {{[participant_id |-> all[n][1], condition |-> all[n][2],
              pre |-> x[1], post |-> x[2], block_position |-> NoPosition] :
               x \in pairs(all[n])} : n \in 1..Len(all)}

\* analyse_tz5_os_study_v2.py: build_tables
build_tables(recs) ==
  LET latest == latest_per_participant_section(recs)
      pre == phase_df(latest, "pre")
      post == phase_df(latest, "post")
  IN [pre_df |-> pre, post_df |-> post, blocks_df |-> merge_outer(pre, post)]

\* the section keys of the model: well-formed blocks, then a letter outside
\* the alphabet, a lowercase letter, an extra segment, a trailing newline,
\* and the end section
BlockSections == {<<"block", "A", "pre">>, <<"block", "A", "post">>, <<"block", "B", "post">>}
OtherSections ==
  {<<"block", "D", "pre">>, <<"block", "a", "pre">>, <<"block", "A", "x", "pre">>,
   <<"block", "A", "pre\n">>, <<"end">>}

Payload(raw) == [k \in PayloadKeys |-> raw]

\* what one record handed to the builders may be: P1 submits every section of
\* the model, P2 only well-formed blocks
TblHeads ==
  {[participant_id |-> "P1", section_key |-> sk, updated_at |-> NoTimestamp,
    payload |-> Payload(raw)] :
     sk \in {<<"block", "A", "pre">>, <<"block", "A", "post">>}, raw \in RawSample}
  \cup
  {[participant_id |-> "P1", section_key |-> <<"end">>, updated_at |-> NoTimestamp,
    payload |-> Payload(raw)] : raw \in {RawNone, RawOtherString}}
  \cup
  {[participant_id |-> "P1", section_key |-> sk, updated_at |-> NoTimestamp,
    payload |-> Payload(RawNumber(4))] : sk \in BlockSections \cup OtherSections}
  \cup
  {[participant_id |-> "P2", section_key |-> sk, updated_at |-> NoTimestamp,
    payload |-> Payload(raw)] :
     sk \in {<<"block", "A", "pre">>, <<"block", "B", "post">>},
     raw \in {RawNone, RawNumber(4)}}

\* load_records returns select_latest(records): one record per key; the
\* records go either to the builders of run_analysis or to build_tables of
\* analyse_tz5_os_study_v2
TablesInit ==
  /\ \E n \in 0..MaxBlockRecords : tbl_records \in [1..n -> TblHeads]
  /\ \A i, j \in 1..Len(tbl_records) :
       i # j => Key(tbl_records[i]) # Key(tbl_records[j])
  /\ tables_pc \in {"build_blocks_long", "build_tables"}
  /\ long_df = <<>>
  /\ wide_df = <<>>
  /\ missing_df = {}
  /\ warnings = <<>>
  /\ pre_df = <<>>
  /\ post_df = <<>>
  /\ blocks_df = {}

BuildBlocksLong ==
  /\ tables_pc = "build_blocks_long"
  /\ long_df' = build_blocks_long(tbl_records)
  /\ tables_pc' = "build_blocks_wide"
  /\ UNCHANGED <<tbl_records, wide_df, missing_df, warnings, pre_df, post_df, blocks_df,
               notTablesVars>>

BuildBlocksWide ==
  /\ tables_pc = "build_blocks_wide"
  /\ wide_df' = build_blocks_wide(tbl_records)
  /\ tables_pc' = "build_missingness_report"
  /\ UNCHANGED <<tbl_records, long_df, missing_df, warnings, pre_df, post_df, blocks_df,
               notTablesVars>>

BuildMissingnessReport ==
  /\ tables_pc = "build_missingness_report"
  /\ missing_df' = build_missingness_report(long_df)
  /\ tables_pc' = "detect_non_numeric"
  /\ UNCHANGED <<tbl_records, long_df, wide_df, warnings, pre_df, post_df, blocks_df,
               notTablesVars>>

DetectNonNumeric ==
  /\ tables_pc = "detect_non_numeric"
  /\ warnings' = detect_non_numeric(tbl_records)
  /\ tables_pc' = "done"
  /\ UNCHANGED <<tbl_records, long_df, wide_df, missing_df, pre_df, post_df, blocks_df,
               notTablesVars>>

\* analyse_tz5_os_study_v2.py: main, load_records then build_tables
BuildTables ==
  /\ tables_pc = "build_tables"
  /\ LET t == build_tables(load_records_v2(tbl_records))
     IN /\ pre_df' = t.pre_df
        /\ post_df' = t.post_df
        /\ blocks_df' = t.blocks_df
  /\ tables_pc' = "done_v2"
  /\ UNCHANGED <<tbl_records, long_df, wide_df, missing_df, warnings, notTablesVars>>

TablesNext ==
  \/ BuildTables
  \/ BuildBlocksLong
  \/ BuildBlocksWide
  \/ BuildMissingnessReport
  \/ DetectNonNumeric

\* no table is being built
TablesIdle ==
  /\ tbl_records = <<>>
  /\ tables_pc = "idle"
  /\ long_df = <<>>
  /\ wide_df = <<>>
  /\ missing_df = {}
  /\ warnings = <<>>
  /\ pre_df = <<>>
  /\ post_df = <<>>
  /\ blocks_df = {}

(***************************************************************************)
(* Results_5/io_ingest.py: load_records on a parsed JSON document.  A raw  *)
(* timestamp is absent, an ISO string without or with a UTC offset, an     *)
(* epoch number, or a string no format parses.  A parsed timestamp is its  *)
(* instant (updated_at) and whether the datetime is offset-aware (tzinfo). *)
(***************************************************************************)
TsAbsent == [kind |-> "absent", t |-> NoTimestamp]
TsNaive(t) == [kind |-> "iso", t |-> t]
TsAware(t) == [kind |-> "iso_offset", t |-> t]
TsEpoch(t) == [kind |-> "number", t |-> t]
TsGarbage == [kind |-> "unparsable", t |-> NoTimestamp]

RawTimestamps ==
  {TsAbsent, TsGarbage}
    \cup {TsNaive(t) : t \in Timestamps}
    \cup {TsAware(t) : t \in Timestamps}
    \cup {TsEpoch(t) : t \in Timestamps}

\* parse_timestamp: datetime.fromtimestamp and an ISO string without offset
\* give a naive datetime, an ISO string with offset an aware one, anything
\* else None
parse_timestamp(ts) ==
  IF ts.kind \in {"iso", "number"} THEN [updated_at |-> ts.t, tzinfo |-> FALSE]
  ELSE IF ts.kind = "iso_offset" THEN [updated_at |-> ts.t, tzinfo |-> TRUE]
  ELSE [updated_at |-> NoTimestamp, tzinfo |-> FALSE]

\* the elements of the top-level list: a non-mapping, or a mapping with or
\* without its identifying fields, a mapping or a list as payload, and a
\* timestamp
RawElement(is_dict, pid, sk, payload, ts) ==
  [is_dict |-> is_dict, participant_id |-> pid, section_key |-> sk,
   payload |-> payload, ts |-> ts]

RawElements ==
  {RawElement(FALSE, "", "", "none", TsAbsent),
   RawElement(TRUE, "", "block_A_pre", "dict", TsAbsent),
   RawElement(TRUE, "P1", "", "dict", TsAbsent),
   RawElement(TRUE, "P1", "block_A_pre", "list", TsAbsent)}
    \cup {RawElement(TRUE, "P1", "block_A_pre", "dict", ts) : ts \in RawTimestamps}

\* the documents: a list, a mapping holding the list under "data", a mapping
\* without a list, and a scalar
TopKinds == {"list", "dict_data", "dict", "scalar"}

RECURSIVE load_loop(_, _)
\* the loop of load_records over data: payload |-> i stands for the payload
\* of element i, or for {} when that payload is not a mapping
load_loop(data, i) ==
  IF i > Len(data) THEN <<>>
  ELSE LET rec == data[i]
           ts == parse_timestamp(rec.ts)
       IN (IF ~rec.is_dict \/ rec.participant_id = "" \/ rec.section_key = ""
           THEN <<>>
           ELSE <<[participant_id |-> rec.participant_id,
                   section_key |-> rec.section_key,
                   payload |-> IF rec.payload = "dict" THEN i ELSE 0,
                   updated_at |-> ts.updated_at,
                   tzinfo |-> ts.tzinfo]>>)
          \o load_loop(data, i + 1)

\* select_latest reaches `t_new >= t_old` with one offset-aware and one naive
\* datetime: the comparison raises TypeError
select_latest_raises(recs) ==
  \E i \in 1..Len(recs) :
    LET latest == select_latest_loop(SubSeq(recs, 1, i - 1), <<>>, 1)
        j == Slot(recs, latest, recs[i])
    IN /\ recs[i].participant_id # ""
       /\ recs[i].section_key # ""
       /\ j # 0
       /\ recs[i].updated_at # NoTimestamp
       /\ recs[latest[j]].updated_at # NoTimestamp
       /\ recs[i].tzinfo # recs[latest[j]].tzinfo

\* load_records
load_records(doc) ==
  IF doc.top \notin {"list", "dict_data"}
  THEN [raised |-> "ValueError", records |-> <<>>]
  ELSE LET recs == load_loop(doc.data, 1)
       IN IF select_latest_raises(recs)
          THEN [raised |-> "TypeError", records |-> <<>>]
          ELSE [raised |-> "none", records |-> select_latest(recs)]

LoadInit ==
  /\ \E top \in TopKinds :
       \E n \in 0..MaxRecords :
         \E data \in [1..n -> RawElements] :
           /\ top \in {"dict", "scalar"} => n = 0
           /\ raw_data = [top |-> top, data |-> data]
  /\ loaded = [raised |-> "not called", records |-> <<>>]

LoadRecords ==
  /\ loaded.raised = "not called"
  /\ loaded' = load_records(raw_data)
  /\ UNCHANGED <<raw_data, notLoadVars>>

LoadNext == LoadRecords

\* no document is being loaded
LoadIdle ==
  /\ raw_data = <<>>
  /\ loaded = <<>>

(***************************************************************************)
(* Bootstrap confidence intervals.  make_results.py hands one generator to *)
(* every cell of condition_construct_summary; plots_estimation.py makes a  *)
(* generator per call of _bootstrap_ci.  The generator is a multiplicative *)
(* congruential stream over 1..RngModulus - 1.  A cell holds integer       *)
(* scores;                                                                 *)
(* a bootstrap mean is kept as the sum of the resample (the mean times the *)
(* cell size) and a quantile as 1000 times its value on that scale.        *)
(***************************************************************************)
MaxCellSize == 2
BootstrapN == 2
MaxSeed == 1

RngModulus == 31

\* plots_estimation.py: _bootstrap_ci(values, n_boot=2000, seed=7)
PlotSeed == 7

\* the scores a cell is drawn from
ScoreSample == {1, 4}

\* the cells of a summary, in the order cfg lists them
CellIds == {1, 2}
CellOrder == <<1, 2>>

\* np.random.default_rng(seed)
default_rng(s) == (s % (RngModulus - 1)) + 1

\* the state of the generator after one draw
rng_next(state) == (3 * state) % RngModulus

RECURSIVE rng_stream(_, _)
\* the k states the generator goes through from `state`
rng_stream(state, k) ==
  IF k = 0 THEN <<>>
  ELSE <<rng_next(state)>> \o rng_stream(rng_next(state), k - 1)

\* rng.integers(0, size, size=k), as 1-based positions
integers(state, size, k) ==
  LET stream == rng_stream(state, k)
  IN [i \in 1..k |-> (stream[i] % size) + 1]

\* the state of the generator after k draws
advance(state, k) == IF k = 0 THEN state ELSE rng_stream(state, k)[k]

\* values[idx].mean(axis=1) for idx of shape (n, values.size), times values.size
boot_means(values, n, state) ==
  LET size == Len(values)
      idx == integers(state, size, n * size)
  IN [r \in 1..n |-> SumSeq([c \in 1..size |-> values[idx[(r - 1) * size + c]]])]

\* the k-th smallest element of boots
kth(boots, k) ==
  CHOOSE v \in {boots[i] : i \in 1..Len(boots)} :
    /\ Cardinality({i \in 1..Len(boots) : boots[i] < v}) < k
    /\ k <= Cardinality({i \in 1..Len(boots) : boots[i] <= v})

\* np.quantile(boots, q) and np.percentile(boots, 100 q) for q = q1000 / 1000,
\* linear interpolation, times 1000
quantile(boots, q1000) ==
  LET pos == q1000 * (Len(boots) - 1)
      j == pos \div 1000
      frac == pos % 1000
  IN IF j + 2 <= Len(boots)
     THEN 1000 * kth(boots, j + 1) + frac * (kth(boots, j + 2) - kth(boots, j + 1))
     ELSE 1000 * kth(boots, j + 1)

\* the interval of an empty cell: (nan, nan)
NanInterval == [nan |-> TRUE, lo |-> 0, hi |-> 0]

\* make_results.py: bootstrap_ci_mean with alpha = 0.05; the interval and the
\* generator as the call leaves it
bootstrap_ci_mean(values, n, state) ==
  IF Len(values) = 0 THEN [interval |-> NanInterval, rng |-> state]
  ELSE LET boots == boot_means(values, n, state)
       IN [interval |-> [nan |-> FALSE, lo |-> quantile(boots, 25),
                         hi |-> quantile(boots, 975)],
           rng |-> advance(state, n * Len(values))]

RECURSIVE summary_loop(_, _, _, _, _)
\* the loop of condition_construct_summary over the cells, from the i-th of
\* order on, with the generator in `state`
summary_loop(d, order, i, state, out) ==
  IF i > Len(order) THEN out
  ELSE LET b == bootstrap_ci_mean(d[order[i]], BootstrapN, state)
       IN summary_loop(d, order, i + 1, b.rng, [out EXCEPT ![order[i]] = b.interval])

\* make_results.py: run's rng = np.random.default_rng(seed), handed to
\* condition_construct_summary
condition_construct_summary(d, order, s) ==
  summary_loop(d, order, 1, default_rng(s), [c \in CellIds |-> NanInterval])

\* plots_estimation.py: _bootstrap_ci
bootstrap_ci(values, n_boot, s) ==
  IF Len(values) = 0 THEN NanInterval
  ELSE LET boots == boot_means(values, n_boot, default_rng(s))
       IN [nan |-> FALSE, lo |-> quantile(boots, 25), hi |-> quantile(boots, 975)]

\* plots_estimation.py: plot_estimation, the interval drawn for each contrast
plot_estimation(d, order) == [c \in CellIds |-> bootstrap_ci(d[c], BootstrapN, PlotSeed)]

\* the data a cell may hold
CellData(n) == [1..n -> ScoreSample]

\* two runs of a script with the same seed: the second run keeps the data of
\* cell 2 and may hold other data in cell 1 and resample the cells in the
\* other order
BootstrapInit ==
  /\ \/ boot_pc = "make_results" /\ seed \in 0..MaxSeed
     \/ boot_pc = "plot_estimation" /\ seed = PlotSeed
  /\ \E n1, n2 \in 0..MaxCellSize : cells \in [CellIds -> CellData(n1) \cup CellData(n2)]
  /\ \E n \in 0..MaxCellSize : \E other \in CellData(n) :
       cells_again = [cells EXCEPT ![1] = other]
  /\ order_again \in {CellOrder, <<2, 1>>}
  /\ ci = [c \in CellIds |-> NanInterval]
  /\ ci_again = [c \in CellIds |-> NanInterval]

ConditionConstructSummary ==
  /\ boot_pc = "make_results"
  /\ ci' = condition_construct_summary(cells, CellOrder, seed)
  /\ boot_pc' = "make_results_again"
  /\ UNCHANGED <<seed, cells, cells_again, order_again, ci_again, notBootstrapVars>>

ConditionConstructSummaryAgain ==
  /\ boot_pc = "make_results_again"
  /\ ci_again' = condition_construct_summary(cells_again, order_again, seed)
  /\ boot_pc' = "make_results_done"
  /\ UNCHANGED <<seed, cells, cells_again, order_again, ci, notBootstrapVars>>

PlotEstimation ==
  /\ boot_pc = "plot_estimation"
  /\ ci' = plot_estimation(cells, CellOrder)
  /\ boot_pc' = "plot_estimation_again"
  /\ UNCHANGED <<seed, cells, cells_again, order_again, ci_again, notBootstrapVars>>

PlotEstimationAgain ==
  /\ boot_pc = "plot_estimation_again"
  /\ ci_again' = plot_estimation(cells_again, order_again)
  /\ boot_pc' = "plot_estimation_done"
  /\ UNCHANGED <<seed, cells, cells_again, order_again, ci, notBootstrapVars>>

BootstrapNext ==
  \/ ConditionConstructSummary
  \/ ConditionConstructSummaryAgain
  \/ PlotEstimation
  \/ PlotEstimationAgain

\* no interval is being computed
BootstrapIdle ==
  /\ boot_pc = "idle"
  /\ seed = 0
  /\ cells = [c \in CellIds |-> <<>>]
  /\ cells_again = [c \in CellIds |-> <<>>]
  /\ order_again = CellOrder
  /\ ci = [c \in CellIds |-> NanInterval]
  /\ ci_again = [c \in CellIds |-> NanInterval]

(***************************************************************************)
(* The tests on degenerate data.  Every participant has a score in every   *)
(* condition; what matters is whether the scores differ.  scipy returns    *)
(* "scipy" (a number) or "nan"; which it does on all-zero differences      *)
(* depends on the installed version, which raises ValueError or returns a  *)
(* nan p-value.                                                            *)
(***************************************************************************)
\* the scores of the model
ScoreLevels == {1, 2}

\* w[x] - w[y] is zero for every participant
all_zero(df, x, y) == \A i \in Participants : df[i][x] = df[i][y]

\* every participant has the same score in all conditions
all_tied(df) == \A i \in Participants : \A c, d \in Conditions : df[i][c] = df[i][d]

\* scipy.stats.wilcoxon(w[x], w[y], zero_method="wilcox", ...)
scipy_wilcoxon(df, x, y, version) ==
  IF all_zero(df, x, y)
  THEN IF version = "raises"
       THEN [raised |-> "ValueError", stat |-> "null", p |-> "null"]
       ELSE [raised |-> "none", stat |-> "scipy", p |-> "nan"]
  ELSE [raised |-> "none", stat |-> "scipy", p |-> "scipy"]

\* scipy.stats.friedmanchisquare(wide["A"], wide["B"], wide["C"]): with every
\* row tied the tie correction is 0 and the statistic is 0 / 0
scipy_friedmanchisquare(df) ==
  IF all_tied(df) THEN [statistic |-> "nan", pvalue |-> "nan"]
  ELSE [statistic |-> "scipy", pvalue |-> "scipy"]

\* Results_5/analyse_tz5_os_study_v2.py: friedman_item on complete data
friedman_item_scores(df) ==
  LET out == [n |-> 0, chi2 |-> "null", p |-> "null", kendalls_w |-> "null", note |-> ""]
      stat == scipy_friedmanchisquare(df)
  IN IF NumParticipants < 3
     THEN [out EXCEPT !.note = "insufficient complete cases"]
     ELSE [out EXCEPT !.n = NumParticipants, !.chi2 = stat.statistic, !.p = stat.pvalue,
                      !.kendalls_w = stat.statistic]

\* wilcoxon_pairs on complete data: the rows, or the exception of the first
\* pair whose test raises
wilcoxon_pairs_scores(df, version) ==
  LET res == [i \in 1..Len(Pairs) |-> scipy_wilcoxon(df, Pairs[i][1], Pairs[i][2], version)]
      valid_idx == {i \in 1..Len(Pairs) : res[i].p = "scipy"}    \* p == p
  IN IF NumParticipants < 3
     THEN [raised |-> "none",
           rows |-> [i \in 1..Len(Pairs) |->
                       [pair |-> Pairs[i], n |-> NumParticipants, stat |-> "null",
                        p |-> "null", p_holm |-> "null", note |-> ""]]]
     ELSE IF \E i \in 1..Len(Pairs) : res[i].raised # "none"
     THEN [raised |-> "ValueError", rows |-> <<>>]
     ELSE [raised |-> "none",
           rows |-> [i \in 1..Len(Pairs) |->
                       [pair |-> Pairs[i], n |-> NumParticipants, stat |-> res[i].stat,
                        p |-> res[i].p,
                        p_holm |-> IF i \in valid_idx THEN "holm" ELSE "null",
                        note |-> ""]]]

DegenerateInit ==
  /\ scores \in [Participants -> [Conditions -> ScoreLevels]]
  /\ scipy_all_zero \in {"raises", "nan"}
  /\ degenerate_pc = "friedman_item"
  /\ friedman_out = NoResult
  /\ wilcoxon_out = NoResult

\* save_stats_tables: stats_rows.append(friedman_item(blocks_df, item))
FriedmanItemScores ==
  /\ degenerate_pc = "friedman_item"
  /\ friedman_out' = friedman_item_scores(scores)
  /\ degenerate_pc' = "wilcoxon_pairs"
  /\ UNCHANGED <<scores, scipy_all_zero, wilcoxon_out, notDegenerateVars>>

\* save_stats_tables: pairwise_rows.append(wilcoxon_pairs(blocks_df, item)); an
\* exception ends the script
WilcoxonPairsScores ==
  /\ degenerate_pc = "wilcoxon_pairs"
  /\ wilcoxon_out' = wilcoxon_pairs_scores(scores, scipy_all_zero)
  /\ degenerate_pc' = IF wilcoxon_pairs_scores(scores, scipy_all_zero).raised = "none"
                      THEN "done" ELSE "raised"
  /\ UNCHANGED <<scores, scipy_all_zero, friedman_out, notDegenerateVars>>

DegenerateNext ==
  \/ FriedmanItemScores
  \/ WilcoxonPairsScores

\* no test on scores is running
DegenerateIdle ==
  /\ scores = <<>>
  /\ scipy_all_zero = "none"
  /\ degenerate_pc = "idle"
  /\ friedman_out = NoResult
  /\ wilcoxon_out = NoResult

(***************************************************************************)
(* The loaders on a nested document.  A node is a mapping or a sequence.   *)
(* A mapping has id n > 0 when it carries the participant id and section   *)
(* key of submission n and id 0 when it carries neither; it may hold one   *)
(* nested node under `key`.  The submissions of a document have distinct   *)
(* (participant_id, section_key) pairs and no timestamp.                   *)
(***************************************************************************)
MaxDepth == 2
MaxLeaves == 2

\* a mapping without a nested node
Leaf(id) == [kind |-> "dict", id |-> id, key |-> "", kids |-> <<>>]

\* the node that holds `inner` in a sequence of one element, in a mapping
\* under "records" or "export", or in a submission n under "children"
Wrap(w, n, inner) ==
  IF w = "list" THEN [kind |-> "list", id |-> 0, key |-> "", kids |-> <<inner>>]
  ELSE IF w = "record" THEN [kind |-> "dict", id |-> n, key |-> "children", kids |-> <<inner>>]
  ELSE [kind |-> "dict", id |-> 0, key |-> w, kids |-> <<inner>>]

Wrappers == {"list", "records", "export", "record"}

RECURSIVE Nest(_, _, _)
\* `inner` inside the wrappers ws, the first of them outermost; the
\* submissions among the wrappers are numbered from `n` on
Nest(ws, n, inner) ==
  IF ws = <<>> THEN inner
  ELSE Wrap(Head(ws), n, Nest(Tail(ws), n + 1, inner))

RECURSIVE iter_dicts(_)
\* analyse_tz5_os_study_v2.py: iter_dicts, the mappings of obj in pre-order
iter_dicts(obj) ==
  LET RECURSIVE of_kids(_)
      of_kids(kids) == IF kids = <<>> THEN <<>>
                       ELSE iter_dicts(Head(kids)) \o of_kids(Tail(kids))
  IN IF obj.kind = "dict" THEN <<obj>> \o of_kids(obj.kids)
     ELSE of_kids(obj.kids)

\* the ids of the mappings of nodes that carry a participant id and a section
\* key, in order
submissions(nodes) ==
  LET hits == Filter(nodes, {i \in 1..Len(nodes) : nodes[i].kind = "dict" /\ nodes[i].id # 0}, 1)
  IN [i \in 1..Len(hits) |-> hits[i].id]

\* Results_5/io_ingest.py: load_records: a top-level mapping is replaced by the
\* list under "data", "records" or "rows"; anything but a list raises; the
\* mappings of the list that carry both ids are kept
load_records_nested(data) ==
  LET top == IF /\ data.kind = "dict" /\ data.key = "records"
                /\ data.kids[1].kind = "list"
             THEN data.kids[1] ELSE data
  IN IF top.kind # "list" THEN [raised |-> "ValueError", records |-> <<>>]
     ELSE [raised |-> "none", records |-> submissions(top.kids)]

\* analyse_tz5_os_study_v2.py: load_records: the mappings of a top-level list,
\* or iter_dicts of anything else; a mapping without ids and payload is skipped
load_records_v2_nested(data) ==
  LET candidates == IF data.kind = "list"
                    THEN Filter(data.kids, {i \in 1..Len(data.kids) : data.kids[i].kind = "dict"}, 1)
                    ELSE iter_dicts(data)
  IN [raised |-> "none", records |-> submissions(candidates)]

\* a list of up to MaxLeaves mappings, some of them submissions, inside up to
\* MaxDepth wrappers
NestedInit ==
  /\ \E d \in 0..MaxDepth, n \in 0..MaxLeaves :
       \E ws \in [1..d -> Wrappers], has \in [1..n -> BOOLEAN] :
         nested_doc = Nest(ws, 1,
                           [kind |-> "list", id |-> 0, key |-> "",
                            kids |-> [i \in 1..n |-> Leaf(IF has[i] THEN d + i ELSE 0)]])
  /\ nested_pc \in {"io_ingest", "analyse_tz5_os_study_v2"}
  /\ nested_out = [raised |-> "not called", records |-> <<>>]

LoadRecordsNested ==
  /\ nested_pc = "io_ingest"
  /\ nested_out' = load_records_nested(nested_doc)
  /\ nested_pc' = "loaded"
  /\ UNCHANGED <<nested_doc, notNestedVars>>

LoadRecordsV2Nested ==
  /\ nested_pc = "analyse_tz5_os_study_v2"
  /\ nested_out' = load_records_v2_nested(nested_doc)
  /\ nested_pc' = "loaded"
  /\ UNCHANGED <<nested_doc, notNestedVars>>

NestedNext ==
  \/ LoadRecordsNested
  \/ LoadRecordsV2Nested

\* no nested document is being loaded
NestedIdle ==
  /\ nested_doc = Leaf(0)
  /\ nested_pc = "idle"
  /\ nested_out = [raised |-> "not called", records |-> <<>>]

(***************************************************************************)
(* The participant survey backend ("Participant Survey/backend/app").      *)
(* save_section runs in a worker thread with its own database session:     *)
(* it reads, and then commits, and another call may commit in between.     *)
(* A payload is a mapping from field names to answers.  A participant id   *)
(* is kept as the tuple of its characters.                                 *)
(***************************************************************************)
MaxCalls == 3

Threads == {1, 2}
ParticipantCodes == {<<"1", "2", "3", "4", "A">>, <<"1", "2", "3", "4", "5">>}
SectionNames == {"meta", "block_A_pre"}
FieldNames == {"q1", "q2"}
Payloads == UNION {[S -> {"x"}] : S \in SUBSET FieldNames}

\* no participant row
Absent == [exists |-> FALSE, value |-> <<>>]
\* no save of the key has returned ok
NeverSaved == [exists |-> FALSE]
Some(v) == [exists |-> TRUE, value |-> v]

\* main.py: PARTICIPANT_ID_RE = ^\d{4}[A-Za-z]$ matched on the stripped id
PARTICIPANT_ID_RE_match(pid) ==
  /\ Len(pid) = 5
  /\ \A i \in 1..4 : pid[i] \in {"1", "2", "3", "4", "5"}
  /\ pid[5] \in {"A", "a"}

\* dict.update: meta with the entries of payload written over it
dict_update(meta, payload) ==
  [f \in DOMAIN meta \cup DOMAIN payload |->
     IF f \in DOMAIN payload THEN payload[f] ELSE meta[f]]

\* select(ResponseSection).where(participant_id == ..., section_key == ...)
\* .scalar_one_or_none(): the id of the row, 0 for none
select_existing(rows, pid, key) ==
  IF \E i \in 1..Len(rows) : rows[i].participant_id = pid /\ rows[i].section_key = key
  THEN CHOOSE i \in 1..Len(rows) : rows[i].participant_id = pid /\ rows[i].section_key = key
  ELSE 0

\* mutant: the payload of an existing row is merged with the new one
upsert_merge(rows, existing, req) ==
  IF existing = 0
  THEN Append(rows, [participant_id |-> req.participant_id,
                     section_key |-> req.section_key, payload |-> req.payload])
  ELSE [rows EXCEPT ![existing].payload = dict_update(@, req.payload)]

\* save_section, "Upsert section": a new row, or existing.payload = req.payload
upsert(rows, existing, req) ==
  IF existing = 0
  THEN Append(rows, [participant_id |-> req.participant_id,
                     section_key |-> req.section_key, payload |-> req.payload])
  ELSE [rows EXCEPT ![existing].payload = req.payload]

\* models.py: uq_participant_section, checked when the INSERT is committed
uq_participant_section(rows) ==
  \A i, j \in 1..Len(rows) :
    (rows[i].participant_id = rows[j].participant_id
     /\ rows[i].section_key = rows[j].section_key) => i = j

Idle == [pc |-> "idle"]

SectionInit ==
  /\ participants = [pid \in ParticipantCodes |-> Absent]
  /\ response_sections = <<>>
  /\ tx = [t \in Threads |-> Idle]
  /\ calls = 0
  /\ last_ok = [k \in ParticipantCodes \X SectionNames |-> NeverSaved]

\* the participant row another uncommitted call has already inserted
InsertPending(t, pid) ==
  \E u \in Threads \ {t} :
    tx[u].pc = "selected" /\ tx[u].new_participant /\ tx[u].req.participant_id = pid

\* save_section up to the SELECT: HTTP 400 for a meta section with an invalid
\* participant id, and an IntegrityError when the participant row is being
\* inserted by another call; both end the call and roll its session back
SaveSectionSelect(t, req) ==
  LET pid == req.participant_id
      is_new == ~participants[pid].exists
      meta == dict_update(participants[pid].value, req.payload)
  IN /\ tx[t].pc = "idle"
     /\ calls < MaxCalls
     /\ calls' = calls + 1
     /\ IF \/ is_new /\ InsertPending(t, pid)
           \/ req.section_key = "meta" /\ ~PARTICIPANT_ID_RE_match(pid)
        THEN tx' = tx
        ELSE tx' = [tx EXCEPT ![t] =
                      [pc |-> "selected", req |-> req, new_participant |-> is_new,
                       session_meta |-> IF req.section_key = "meta" THEN meta
                                        ELSE participants[pid].value,
                       existing |-> select_existing(response_sections, pid, req.section_key)]]
     /\ UNCHANGED <<participants, response_sections, last_ok, notSectionVars>>

\* save_section from the upsert to the response: db.commit() raises
\* IntegrityError when the new row breaks uq_participant_section, and then
\* nothing of the call is stored
SaveSectionCommit(t) ==
  LET req == tx[t].req
      rows == upsert(response_sections, tx[t].existing, req)
  IN /\ tx[t].pc = "selected"
     /\ tx' = [tx EXCEPT ![t] = Idle]
     /\ IF uq_participant_section(rows)
        THEN /\ response_sections' = rows
             /\ participants' = [participants EXCEPT ![req.participant_id] = Some(tx[t].session_meta)]
             /\ last_ok' = [last_ok EXCEPT ![<<req.participant_id, req.section_key>>] =
                                  [exists |-> TRUE, value |-> req.payload,
                                   over |-> [exists |-> @.exists,
                                             value |-> IF @.exists THEN @.value ELSE <<>>]]]
        ELSE UNCHANGED <<response_sections, participants, last_ok>>
     /\ UNCHANGED <<calls, notSectionVars>>

SectionNext ==
  \/ \E t \in Threads, pid \in ParticipantCodes, key \in SectionNames, payload \in Payloads :
       SaveSectionSelect(t, [participant_id |-> pid, section_key |-> key, payload |-> payload])
  \/ \E t \in Threads : SaveSectionCommit(t)

\* the backend is not running
SectionIdle ==
  /\ participants = <<>>
  /\ response_sections = <<>>
  /\ tx = <<>>
  /\ calls = 0
  /\ last_ok = <<>>

(***************************************************************************)
(* The rater survey backend ("Rater Survey/backend/app"), for one rater    *)
(* token.  Every request handler works in a database session of its own    *)
(* and the clip scanner runs between requests.                             *)
(***************************************************************************)
MaxClipId == 3

FileNames == {"a.mp4", "b.mp4"}

\* the order of files.sort(key=lambda p: p.name.lower())
SortedNames == <<"a.mp4", "b.mp4">>

\* the sequence s without repetitions
IsInjective(s) == \A i, j \in 1..Len(s) : s[i] = s[j] => i = j

\* the filename of the clips row with this id, "" for none
filename_by_id(cid) ==
  IF \E c \in clips : c.clip_id = cid
  THEN (CHOOSE c \in clips : c.clip_id = cid).filename
  ELSE ""

\* session_state: the loop that builds `filtered`
RECURSIVE filter_clip_ids(_, _)
filter_clip_ids(clip_ids, seen) ==
  IF clip_ids = <<>> THEN <<>>
  ELSE LET cid == Head(clip_ids)
           fname == filename_by_id(cid)
       IN IF cid \in seen \/ fname = "" \/ fname \notin files
          THEN filter_clip_ids(Tail(clip_ids), seen)
          ELSE <<cid>> \o filter_clip_ids(Tail(clip_ids), seen \cup {cid})

\* playlist = s.playlist or {}; playlist[...] = ...; s.playlist = playlist;
\* db.commit().  Session.playlist is a plain JSONB column (models.py) and the
\* stored playlist is never empty, so `playlist` is the loaded dict itself,
\* changed in place and assigned back.  At flush the ORM compares the value
\* with the one the assignment replaced, which is the same object, finds them
\* equal and issues no UPDATE: the row keeps what was loaded.
commit_playlist(in_db, playlist) == in_db

NoSession == [exists |-> FALSE, clip_ids |-> <<>>, consent |-> FALSE]
NoStateReply == [called |-> FALSE, status |-> 0, clip_ids |-> <<>>, consent |-> FALSE,
                 consent_ok |-> FALSE]

RaterInit ==
  /\ files \in SUBSET FileNames
  /\ clips = {}
  /\ next_clip_id = 1
  /\ session = NoSession
  /\ ratings = {}
  /\ session_end = FALSE
  /\ consent_ok = FALSE
  /\ consent_reply = 0
  /\ state_reply = NoStateReply

\* a video file is copied into CLIPS_DIR
AddFile(f) ==
  /\ f \notin files
  /\ files' = files \cup {f}
  /\ UNCHANGED <<clips, next_clip_id, session, ratings, session_end, consent_ok,
                 consent_reply, state_reply, notRaterVars>>

\* a video file is removed from CLIPS_DIR
RemoveFile(f) ==
  /\ f \in files
  /\ files' = files \ {f}
  /\ UNCHANGED <<clips, next_clip_id, session, ratings, session_end, consent_ok,
                 consent_reply, state_reply, notRaterVars>>

\* one round of scan_clips_forever: a row for every new file, in name order,
\* and no row for a file that is gone
ScanClips ==
  LET new == Filter(SortedNames,
                    {i \in 1..Len(SortedNames) :
                       /\ SortedNames[i] \in files
                       /\ \A c \in clips : c.filename # SortedNames[i]}, 1)
  IN /\ next_clip_id + Len(new) <= MaxClipId + 1
     /\ clips' = {c \in clips : c.filename \in files}
                   \cup {[clip_id |-> next_clip_id + i - 1, filename |-> new[i]] :
                           i \in 1..Len(new)}
     /\ next_clip_id' = next_clip_id + Len(new)
     /\ UNCHANGED <<files, session, ratings, session_end, consent_ok, consent_reply,
                    state_reply, notRaterVars>>

\* create_session: the ids of the clips whose file exists, shuffled; HTTP 400
\* without clips
CreateSession ==
  LET ids == {c.clip_id : c \in {d \in clips : d.filename \in files}}
  IN /\ ~session.exists
     /\ ids # {}
     /\ \E clip_ids \in [1..Cardinality(ids) -> ids] :
          /\ IsInjective(clip_ids)
          /\ session' = [exists |-> TRUE, clip_ids |-> clip_ids, consent |-> FALSE]
     /\ UNCHANGED <<files, clips, next_clip_id, ratings, session_end, consent_ok,
                    consent_reply, state_reply, notRaterVars>>

\* session_state: HTTP 404 without a session
SessionState ==
  LET filtered == filter_clip_ids(session.clip_ids, {})
      playlist == [session EXCEPT !.clip_ids = filtered]
  IN IF ~session.exists
     THEN /\ state_reply' = [NoStateReply EXCEPT !.called = TRUE, !.status = 404]
          /\ UNCHANGED <<files, clips, next_clip_id, session, ratings, session_end,
                         consent_ok, consent_reply, notRaterVars>>
     ELSE /\ session' = IF filtered # session.clip_ids
                        THEN commit_playlist(session, playlist) ELSE session
          /\ state_reply' = [called |-> TRUE, status |-> 200, clip_ids |-> filtered,
                             consent |-> playlist.consent, consent_ok |-> consent_ok]
          /\ UNCHANGED <<files, clips, next_clip_id, ratings, session_end, consent_ok,
                         consent_reply, notRaterVars>>

\* save_consent: HTTP 404 without a session, HTTP 400 without agreement
SaveConsent(agreed) ==
  LET playlist == [session EXCEPT !.consent = TRUE]
  IN /\ consent_reply' = IF ~session.exists THEN 404 ELSE IF ~agreed THEN 400 ELSE 200
     /\ session' = IF session.exists /\ agreed
                   THEN commit_playlist(session, playlist) ELSE session
     /\ consent_ok' = (consent_ok \/ (session.exists /\ agreed))
     /\ UNCHANGED <<files, clips, next_clip_id, ratings, session_end, state_reply,
                    notRaterVars>>

\* save_rating: the ratings row of (token, clip_id) is written; the clip id is
\* not looked up
SaveRating(clip_id) ==
  /\ session.exists
  /\ ratings' = ratings \cup {clip_id}
  /\ UNCHANGED <<files, clips, next_clip_id, session, session_end, consent_ok,
                 consent_reply, state_reply, notRaterVars>>

\* save_session_end: the session_end row of the token is written
SaveSessionEnd ==
  /\ session.exists
  /\ session_end' = TRUE
  /\ UNCHANGED <<files, clips, next_clip_id, session, ratings, consent_ok,
                 consent_reply, state_reply, notRaterVars>>

RaterNext ==
  \/ \E f \in FileNames : AddFile(f)
  \/ \E f \in FileNames : RemoveFile(f)
  \/ ScanClips
  \/ CreateSession
  \/ SessionState
  \/ \E agreed \in BOOLEAN : SaveConsent(agreed)
  \/ \E clip_id \in {1, MaxClipId} : SaveRating(clip_id)
  \/ SaveSessionEnd

\* the backend is not running
RaterIdle ==
  /\ files = {}
  /\ clips = {}
  /\ next_clip_id = 0
  /\ session = NoSession
  /\ ratings = {}
  /\ session_end = FALSE
  /\ consent_ok = FALSE
  /\ consent_reply = 0
  /\ state_reply = NoStateReply

(***************************************************************************)
(* range_file_response of the rater backend.  The two groups of the Range  *)
(* header are kept as tuples of digit characters, <<>> for an empty group. *)
(***************************************************************************)
MaxSize == 3
MaxDigits == 2

DigitChars == {"0", "1", "2", "3"}

\* the value of one digit character
DigitValue(ch) == IF ch = "0" THEN 0 ELSE IF ch = "1" THEN 1 ELSE IF ch = "2" THEN 2 ELSE 3

RECURSIVE int(_)
\* int(s) of a non-empty string of digits
int(str) ==
  IF Len(str) = 1 THEN DigitValue(str[1])
  ELSE 10 * int(SubSeq(str, 1, Len(str) - 1)) + DigitValue(str[Len(str)])

Max(a, b) == IF a >= b THEN a ELSE b

\* the response without a usable Range header: the whole file
FileResponse(size) ==
  [status_code |-> 200, start |-> 0, end |-> size - 1, content_length |-> size,
   streamed |-> size]

\* iterfile: seek(start), then read until `length` bytes are sent or the file ends
iterfile(size, start, length) == Min(length, Max(size - start, 0))

\* range_utils.py: range_file_response
range_file_response(size, header) ==
  IF ~header.present THEN FileResponse(size)
  ELSE IF header.start_s = <<>> /\ header.end_s = <<>> THEN FileResponse(size)
  ELSE LET suffix == header.start_s = <<>>
           start0 == IF suffix THEN Max(size - int(header.end_s), 0) ELSE int(header.start_s)
           end0 == IF suffix THEN size - 1
                   ELSE IF header.end_s # <<>> THEN int(header.end_s) ELSE size - 1
           start == Max(0, Min(start0, size - 1))
           end == Max(start, Min(end0, size - 1))
           length == end - start + 1
       IN [status_code |-> 206, start |-> start, end |-> end, content_length |-> length,
           streamed |-> iterfile(size, start, length)]

NoResponse == [status_code |-> 0, start |-> 0, end |-> 0, content_length |-> 0, streamed |-> 0]

\* a file of up to MaxSize bytes and a request without a Range header or with
\* "bytes=<start>-<end>", either group possibly empty
RangeInit ==
  /\ \E size \in 0..MaxSize, n, k \in 0..MaxDigits :
       \E start_s \in [1..n -> DigitChars], end_s \in [1..k -> DigitChars], present \in BOOLEAN :
         range_request = [size |-> size,
                          header |-> IF present
                                     THEN [present |-> TRUE, start_s |-> start_s, end_s |-> end_s]
                                     ELSE [present |-> FALSE, start_s |-> <<>>, end_s |-> <<>>]]
  /\ range_response = NoResponse

\* main.py: media, return range_file_response(request, path)
RangeFileResponse ==
  /\ range_response = NoResponse
  /\ range_response' = range_file_response(range_request.size, range_request.header)
  /\ UNCHANGED <<range_request, notRangeVars>>

RangeNext == RangeFileResponse

\* no clip is being served
RangeIdle ==
  /\ range_request = <<>>
  /\ range_response = NoResponse

\* no composite is being computed
CompositeIdle ==
  /\ construct = "none"
  /\ row = <<>>
  /\ index = <<>>

\* no submissions are being resolved
ResolverIdle ==
  /\ records = <<>>
  /\ resolver = "idle"
  /\ section = ""
  /\ canonical = <<>>
  /\ reresolved = <<>>
  /\ rerun = <<>>
  /\ pass = 0

(***************************************************************************)
(* Specifications: one per part of the analysis.                           *)
(***************************************************************************)
Init ==
  /\ ResolverInit
  /\ CompositeIdle
  /\ StatsIdle
  /\ HolmIdle
  /\ TablesIdle
  /\ LoadIdle
  /\ PositionIdle
  /\ BootstrapIdle
  /\ DegenerateIdle
  /\ NestedIdle
  /\ SectionIdle
  /\ RaterIdle
  /\ RangeIdle

Next == ResolverNext

Spec == Init /\ [][Next]_vars

InitComposite ==
  /\ CompositeInit
  /\ ResolverIdle
  /\ StatsIdle
  /\ HolmIdle
  /\ TablesIdle
  /\ LoadIdle
  /\ PositionIdle
  /\ BootstrapIdle
  /\ DegenerateIdle
  /\ NestedIdle
  /\ SectionIdle
  /\ RaterIdle
  /\ RangeIdle

SpecComposite == InitComposite /\ [][CompositeNext]_vars

InitStats ==
  /\ StatsInit
  /\ ResolverIdle
  /\ CompositeIdle
  /\ HolmIdle
  /\ TablesIdle
  /\ LoadIdle
  /\ PositionIdle
  /\ BootstrapIdle
  /\ DegenerateIdle
  /\ NestedIdle
  /\ SectionIdle
  /\ RaterIdle
  /\ RangeIdle

SpecStats == InitStats /\ [][StatsNext]_vars

InitHolm ==
  /\ HolmInit
  /\ ResolverIdle
  /\ CompositeIdle
  /\ StatsIdle
  /\ TablesIdle
  /\ LoadIdle
  /\ PositionIdle
  /\ BootstrapIdle
  /\ DegenerateIdle
  /\ NestedIdle
  /\ SectionIdle
  /\ RaterIdle
  /\ RangeIdle

SpecHolm == InitHolm /\ [][HolmNext]_vars

InitTables ==
  /\ TablesInit
  /\ ResolverIdle
  /\ CompositeIdle
  /\ StatsIdle
  /\ HolmIdle
  /\ LoadIdle
  /\ PositionIdle
  /\ BootstrapIdle
  /\ DegenerateIdle
  /\ NestedIdle
  /\ SectionIdle
  /\ RaterIdle
  /\ RangeIdle

SpecTables == InitTables /\ [][TablesNext]_vars

InitLoad ==
  /\ LoadInit
  /\ ResolverIdle
  /\ CompositeIdle
  /\ StatsIdle
  /\ HolmIdle
  /\ TablesIdle
  /\ PositionIdle
  /\ BootstrapIdle
  /\ DegenerateIdle
  /\ NestedIdle
  /\ SectionIdle
  /\ RaterIdle
  /\ RangeIdle

SpecLoad == InitLoad /\ [][LoadNext]_vars

InitPosition ==
  /\ PositionInit
  /\ ResolverIdle
  /\ CompositeIdle
  /\ StatsIdle
  /\ HolmIdle
  /\ TablesIdle
  /\ LoadIdle
  /\ BootstrapIdle
  /\ DegenerateIdle
  /\ NestedIdle
  /\ SectionIdle
  /\ RaterIdle
  /\ RangeIdle

SpecPosition == InitPosition /\ [][PositionNext]_vars

InitBootstrap ==
  /\ BootstrapInit
  /\ ResolverIdle
  /\ CompositeIdle
  /\ StatsIdle
  /\ HolmIdle
  /\ TablesIdle
  /\ LoadIdle
  /\ PositionIdle
  /\ DegenerateIdle
  /\ NestedIdle
  /\ SectionIdle
  /\ RaterIdle
  /\ RangeIdle

SpecBootstrap == InitBootstrap /\ [][BootstrapNext]_vars

InitDegenerate ==
  /\ DegenerateInit
  /\ ResolverIdle
  /\ CompositeIdle
  /\ StatsIdle
  /\ HolmIdle
  /\ TablesIdle
  /\ LoadIdle
  /\ PositionIdle
  /\ BootstrapIdle
  /\ NestedIdle
  /\ SectionIdle
  /\ RaterIdle
  /\ RangeIdle

SpecDegenerate == InitDegenerate /\ [][DegenerateNext]_vars

InitNested ==
  /\ NestedInit
  /\ ResolverIdle
  /\ CompositeIdle
  /\ StatsIdle
  /\ HolmIdle
  /\ TablesIdle
  /\ LoadIdle
  /\ PositionIdle
  /\ BootstrapIdle
  /\ DegenerateIdle
  /\ SectionIdle
  /\ RaterIdle
  /\ RangeIdle

SpecNested == InitNested /\ [][NestedNext]_vars

InitSection ==
  /\ SectionInit
  /\ ResolverIdle
  /\ CompositeIdle
  /\ StatsIdle
  /\ HolmIdle
  /\ TablesIdle
  /\ LoadIdle
  /\ PositionIdle
  /\ BootstrapIdle
  /\ DegenerateIdle
  /\ NestedIdle
  /\ RaterIdle
  /\ RangeIdle

SpecSection == InitSection /\ [][SectionNext]_vars

InitRater ==
  /\ RaterInit
  /\ ResolverIdle
  /\ CompositeIdle
  /\ StatsIdle
  /\ HolmIdle
  /\ TablesIdle
  /\ LoadIdle
  /\ PositionIdle
  /\ BootstrapIdle
  /\ DegenerateIdle
  /\ NestedIdle
  /\ SectionIdle
  /\ RangeIdle

SpecRater == InitRater /\ [][RaterNext]_vars

InitRange ==
  /\ RangeInit
  /\ ResolverIdle
  /\ CompositeIdle
  /\ StatsIdle
  /\ HolmIdle
  /\ TablesIdle
  /\ LoadIdle
  /\ PositionIdle
  /\ BootstrapIdle
  /\ DegenerateIdle
  /\ NestedIdle
  /\ SectionIdle
  /\ RaterIdle

SpecRange == InitRange /\ [][RangeNext]_vars

(***************************************************************************)
(* Properties of the resolvers.                                            *)
(***************************************************************************)
\* the raw submissions that are candidates for key k
Candidates(k) == {i \in 1..Len(records) : Key(records[i]) = k}

\* the keys of the identifiable raw submissions the resolver that ran covers
Keys ==
  {Key(records[i]) : i \in {n \in 1..Len(records) :
     /\ records[n].participant_id # ""
     /\ records[n].section_key # ""
     /\ (section = "" \/ records[n].section_key = section)}}

\* the payloads of the canonical records kept for key k
Kept(k) == {canonical[n].payload : n \in {m \in 1..Len(canonical) : Key(canonical[m]) = k}}

\* candidate i is above candidate j in the total order of the resolver
Beats(i, j) ==
  LET ti == records[i].updated_at
      tj == records[j].updated_at
  IN \/ ti # NoTimestamp /\ tj = NoTimestamp
     \/ ti # NoTimestamp /\ tj # NoTimestamp /\ ti > tj
     \/ ti = tj /\ i > j

Best(k) == CHOOSE i \in Candidates(k) : \A j \in Candidates(k) \ {i} : Beats(i, j)

Swap(recs, i, j) == [recs EXCEPT ![i] = recs[j], ![j] = recs[i]]

\* C1: for every key, select_latest and latest_per_participant_section keep
\* the maximum of the key's candidates under the total order (timestamped
\* beats untimestamped, later timestamp wins, then later position wins).
C1_KeepsMaximum ==
  (pass >= 1 /\ resolver \in {"select_latest", "latest_per_participant_section"})
    => \A k \in Keys : Kept(k) = {records[Best(k)].payload}

\* the same statement for latest_per_participant_section alone
KeepsMaximumV2 ==
  (pass >= 1 /\ resolver = "latest_per_participant_section")
    => \A k \in Keys : Kept(k) = {records[Best(k)].payload}

\* C2: of two submissions for one key with parsed timestamps t1 < t2 the
\* resolver keeps the payload of the t2 submission, in both input orders.
C2_LaterTimestampWins ==
  pass >= 1 =>
    \A k \in Keys : \A i, j \in Candidates(k) :
      (/\ Candidates(k) = {i, j}
       /\ records[i].updated_at # NoTimestamp
       /\ records[j].updated_at # NoTimestamp
       /\ records[i].updated_at < records[j].updated_at)
        => Kept(k) = {records[j].payload}

\* select_latest ran on a list in which the later-stamped of the two
\* submissions of a key comes first
C2_Witness ==
  /\ pass = 1
  /\ resolver = "select_latest"
  /\ \E k \in Keys : \E i, j \in Candidates(k) :
       /\ Candidates(k) = {i, j}
       /\ j < i
       /\ records[i].updated_at # NoTimestamp
       /\ records[j].updated_at # NoTimestamp
       /\ records[i].updated_at < records[j].updated_at
       /\ Kept(k) = {records[j].payload}

\* C3: when exactly one of the two submissions for a key has a parsed
\* timestamp, the resolver keeps the timestamped one, in both input orders.
C3_TimestampedWins ==
  (pass >= 1 /\ resolver \in {"select_latest", "latest_by_section", "pick_last"})
    => \A k \in Keys : \A i, j \in Candidates(k) :
         (/\ Candidates(k) = {i, j}
          /\ records[i].updated_at # NoTimestamp
          /\ records[j].updated_at = NoTimestamp)
           => Kept(k) = {records[i].payload}

\* C4: of two submissions for one key with equal or both absent timestamps
\* the resolver keeps the one later in the input list, and on the list with
\* the two swapped it keeps the other one.
C4_TieKeepsLater ==
  (pass >= 1 /\ resolver \in {"select_latest", "latest_per_participant_section"})
    => \A k \in Keys : \A i, j \in Candidates(k) :
         (/\ Candidates(k) = {i, j}
          /\ i < j
          /\ records[i].updated_at = records[j].updated_at)
           => /\ Kept(k) = {records[j].payload}
              /\ LET swapped == IF resolver = "select_latest"
                                THEN select_latest(Swap(records, i, j))
                                ELSE latest_per_participant_section(Swap(records, i, j))
                 IN {swapped[n].payload :
                       n \in {m \in 1..Len(swapped) : Key(swapped[m]) = k}}
                      = {records[i].payload}

\* a resolver ran on two submissions of one key with the same parsed timestamp
C4_Witness ==
  /\ pass = 1
  /\ resolver \in {"select_latest", "latest_per_participant_section"}
  /\ \E k \in Keys : \E i, j \in Candidates(k) :
       /\ Candidates(k) = {i, j}
       /\ i < j
       /\ records[i].updated_at = records[j].updated_at
       /\ records[i].updated_at # NoTimestamp
       /\ Kept(k) = {records[j].payload}

PresentItems == {i \in ItemSet(construct) : row[i] # NaN}

RECURSIVE ReverseCodedSum(_)
\* the sum over the items of the set S of v, or of scale_max + scale_min - v
\* for the items of the reversal subset
ReverseCodedSum(S) ==
  IF S = {} THEN 0
  ELSE LET i == CHOOSE x \in S : TRUE
       IN (IF i \in ConstructReverse(construct)
           THEN scale_max + scale_min - row[i]
           ELSE row[i]) + ReverseCodedSum(S \ {i})

\* x is the mean of the present constituents after reverse-coding
IsReverseCodedMean(x) ==
  /\ ~IsNaN(x)
  /\ x.num * Cardinality(PresentItems) = x.den * ReverseCodedSum(PresentItems)

\* C7: a composite index is null only when no constituent item has a value;
\* with at least one constituent present it is the mean of the present
\* constituents after reverse-coding.
C7_NullOnlyWhenEmpty ==
  \A f \in DOMAIN index \cap {"compute_composites", "compute_intermediality_index"} :
    IF PresentItems = {} THEN IsNaN(index[f]) ELSE IsReverseCodedMean(index[f])

\* the same statement for compute_composites alone
NullOnlyWhenEmptyTransform ==
  "compute_composites" \in DOMAIN index =>
    IF PresentItems = {} THEN IsNaN(index["compute_composites"])
    ELSE IsReverseCodedMean(index["compute_composites"])

\* C8: every composite index of a row with all constituents present is the
\* mean over its items of v, or of 8 - v for the items of the reversal
\* subset: 7 for B_1..B_6 = 7,7,7,7,1,1 and 7 for A_2 = A_3 = A_4 = 7, A_6 = 1.
C8_ReverseCodedMean ==
  \A f \in DOMAIN index \cap {"compute_composites", "intermediality_index",
                              "agency_index", "compute_agency_index"} :
    PresentItems = ItemSet(construct) =>
      /\ IsReverseCodedMean(index[f])
      /\ (/\ construct = "Agency Index"
          /\ row = [i \in ItemSet(construct) |-> IF i = "A_6" THEN 1 ELSE 7])
           => SameNumber(index[f], [num |-> 7, den |-> 1])
      /\ (/\ construct = "Intermediality Index"
          /\ row = [i \in ItemSet(construct) |-> IF i \in {"B_5", "B_6"} THEN 1 ELSE 7])
           => SameNumber(index[f], [num |-> 7, den |-> 1])

\* the same statement for compute_composites alone
ReverseCodedMeanTransform ==
  ("compute_composites" \in DOMAIN index /\ PresentItems = ItemSet(construct))
    => IsReverseCodedMean(index["compute_composites"])

(***************************************************************************)
(* Properties of the hypothesis tests.                                     *)
(***************************************************************************)
PairRow(x, y) ==
  wilcoxon.rows[CHOOSE i \in 1..Len(Pairs) : Pairs[i] = <<x, y>>]

DescribeRow(c) ==
  describe[CHOOSE i \in 1..Len(CONDITION_ORDER) : CONDITION_ORDER[i] = c]

\* the participants who lack a value of X in condition C
LacksC == {x \in Participants : ~notna[x]["C"]}

Paired(i) == {x \in Participants : notna[x][Pairs[i][1]] /\ notna[x][Pairs[i][2]]}

\* the pairs with at least 3 paired observations
TestablePairs == {i \in 1..Len(Pairs) : Cardinality(Paired(i)) >= 3}

CompleteCases == {x \in Participants : \A c \in Conditions : notna[x][c]}

\* C9: with fewer than 3 complete participants (a condition without any
\* data included) friedman_item returns null chi2, p and kendalls_w with
\* the note "insufficient complete cases" and raises nothing.
C9_InsufficientCompleteCases ==
  (friedman.by # "none" /\ Cardinality(CompleteCases) < 3) =>
    /\ friedman.error = "none"
    /\ friedman.chi2 = "null"
    /\ friedman.p = "null"
    /\ friedman.kendalls_w = "null"
    /\ friedman.note = "insufficient complete cases"

\* the same statement when every condition has some value of X
InsufficientCompleteCasesAllColumns ==
  (/\ friedman.by # "none"
   /\ Cardinality(CompleteCases) < 3
   /\ Conditions \subseteq Columns(notna)) =>
    /\ friedman.error = "none"
    /\ friedman.chi2 = "null"
    /\ friedman.p = "null"
    /\ friedman.kendalls_w = "null"
    /\ friedman.note = "insufficient complete cases"

(***************************************************************************)
(* Properties of the Holm correction.                                      *)
(***************************************************************************)
\* C10: the adjusted p-values are non-decreasing in ascending order of the
\* raw p-values, each is at least its raw p-value, and each is at most 1.
C10_HolmMonotoneBounded ==
  holm_done =>
    /\ Len(adj) = Len(pvals)
    /\ \A i, j \in 1..Len(pvals) : pvals[i] <= pvals[j] => adj[i] <= adj[j]
    /\ \A i \in 1..Len(pvals) : pvals[i] <= adj[i] /\ adj[i] <= PScale

\* three distinct p-values were corrected; one adjusted value was capped at
\* 1 and another was raised above its raw value without reaching 1
C10_Witness ==
  /\ holm_done
  /\ Len(pvals) = 3
  /\ \A i, j \in 1..3 : i # j => pvals[i] # pvals[j]
  /\ \E i \in 1..3 : adj[i] = PScale /\ pvals[i] < PScale
  /\ \E j \in 1..3 : pvals[j] < adj[j] /\ adj[j] < PScale

\* the largest of the numbers in the non-empty set S
SetMax(S) == CHOOSE x \in S : \A y \in S : y <= x

\* the standard Holm step-down adjustment of the p-value at position a of the
\* ascending order: the largest min(1, (m - j) * p(j)) over the positions j
\* up to a (positions counted from 0 in the formula, from 1 here)
holm_step_down(ps, order, a) ==
  SetMax({Min((Len(ps) - (j - 1)) * ps[order[j]], PScale) : j \in 1..a})

\* C24: the adjusted p-value of the i-th smallest p-value is the maximum over
\* j <= i of min(1, (m - j) * p(j)), for every list of p-values in [0, 1]
C24_StandardHolmStepDown ==
  holm_done =>
    \E order \in argsort(pvals) :
      \A a \in 1..Len(pvals) : adj[order[a]] = holm_step_down(pvals, order, a)

(***************************************************************************)
(* Properties of the table builders.                                       *)
(***************************************************************************)
\* the block rows of the long table
BlockRows == {i \in 1..Len(long_df) : long_df[i].phase \in {"pre", "post"}}

\* a warning was logged for the item of long row i
Warned(i) ==
  \E w \in 1..Len(warnings) :
    /\ warnings[w].participant_id = long_df[i].participant_id
    /\ warnings[w].item = long_df[i].item

\* C11: every item value of the long table is null or a number of [1, 7],
\* unless a coercion warning was logged for it.
C11_ValuesInScale ==
  tables_pc = "done" =>
    \A i \in BlockRows :
      \/ long_df[i].value = NaN
      \/ (scale_min <= long_df[i].value /\ long_df[i].value <= scale_max)
      \/ Warned(i)

\* the (participant_id, condition) pairs that have a block record of phase ph
BlockKeys(ph) ==
  {<<tbl_records[i].participant_id, match_groups(tbl_records[i].section_key).condition>> :
     i \in {j \in 1..Len(tbl_records) :
              /\ re_match(tbl_records[j].section_key)
              /\ match_groups(tbl_records[j].section_key).phase = ph}}

WideBuilt == tables_pc \in {"build_missingness_report", "detect_non_numeric", "done"}

\* C14: the wide table has exactly one row for each (participant_id,
\* condition) that has a pre or a post block record and no other row; a row
\* whose pair has no record of a phase has every item column of that phase
\* null
C14_OuterJoin ==
  WideBuilt =>
    /\ \A k \in BlockKeys("pre") \cup BlockKeys("post") :
         Cardinality({n \in 1..Len(wide_df) :
                        <<wide_df[n].participant_id, wide_df[n].condition>> = k}) = 1
    /\ \A n \in 1..Len(wide_df) :
         LET k == <<wide_df[n].participant_id, wide_df[n].condition>>
         IN /\ k \in BlockKeys("pre") \cup BlockKeys("post")
            /\ \A i \in 1..Len(ITEMS) :
                 k \notin BlockKeys(ITEMS[i].phase) => wide_df[n].items[ITEMS[i].item] = NaN

\* a pair with a pre record carrying an answer and no post record has its row
C14_Witness ==
  /\ WideBuilt
  /\ \E n \in 1..Len(wide_df) :
       /\ <<wide_df[n].participant_id, wide_df[n].condition>>
             \in BlockKeys("pre") \ BlockKeys("post")
       /\ wide_df[n].items["A_6"] # NaN
       /\ wide_df[n].items["B_1"] = NaN

\* the pre/post rows of the long table for (pid, condition, item), in row order
LongRows(pid, condition, item) ==
  {i \in BlockRows : /\ long_df[i].participant_id = pid
                     /\ long_df[i].condition = condition
                     /\ long_df[i].item = item}

\* the long table pivoted back to one row per (participant_id, condition) with
\* one column per item; a cell without a long row is null, a cell with several
\* takes the first
pivot(pid, condition) ==
  [item \in ItemNames |->
     LET rows == LongRows(pid, condition, item)
     IN IF rows = {} THEN NaN
        ELSE long_df[CHOOSE i \in rows : \A j \in rows : i <= j].value]

LongKeys == {<<long_df[i].participant_id, long_df[i].condition>> : i \in BlockRows}

\* C16: the pivoted long table has the rows of the wide table, with the same
\* item columns, and composites recomputed from the pivoted columns are the
\* composites of the wide table
C16_PivotReproducesWide ==
  WideBuilt =>
    /\ LongKeys = {<<wide_df[n].participant_id, wide_df[n].condition>> : n \in 1..Len(wide_df)}
    /\ \A n \in 1..Len(wide_df) :
         LET back == pivot(wide_df[n].participant_id, wide_df[n].condition)
         IN /\ back = wide_df[n].items
            /\ \A c \in ConstructNames :
                 compute_composites(c, back) = wide_df[n].composites[c]

\* the participant has a record whose section key is exactly
\* block_<condition>_<phase>
HasExactBlock(pid, condition, phase) ==
  \E i \in 1..Len(tbl_records) :
    /\ tbl_records[i].participant_id = pid
    /\ tbl_records[i].section_key = <<"block", condition, phase>>

\* C17: a block row of condition X and phase pre or post comes only from a
\* section key of the exact form block_<X>_<pre|post> with X one of A, B, C,
\* and every such key gives its rows; any other key gives no block row
C17_OnlyExactForm ==
  /\ tables_pc \in {"build_blocks_wide", "done"} =>
       /\ \A i \in BlockRows :
            HasExactBlock(long_df[i].participant_id, long_df[i].condition, long_df[i].phase)
       /\ \A i \in 1..Len(tbl_records) :
            tbl_records[i].section_key \in BlockSections =>
              \E j \in BlockRows :
                /\ long_df[j].participant_id = tbl_records[i].participant_id
                /\ <<"block", long_df[j].condition, long_df[j].phase>>
                     = tbl_records[i].section_key
  /\ tables_pc = "done_v2" =>
       /\ \A i \in 1..Len(pre_df) :
            HasExactBlock(pre_df[i].participant_id, pre_df[i].condition, "pre")
       /\ \A i \in 1..Len(post_df) :
            HasExactBlock(post_df[i].participant_id, post_df[i].condition, "post")

\* the pre/post rows of the long table, in row order
BlockRowSeq == Filter(long_df, BlockRows, 1)

\* the block records, in record order
BlockRecords ==
  Filter(tbl_records, {i \in 1..Len(tbl_records) : re_match(tbl_records[i].section_key)}, 1)

\* the number of items declared for a phase
Declared(phase) == Cardinality({i \in 1..Len(ITEMS) : ITEMS[i].phase = phase})

\* the n-th item declared for a phase, in declaration order
DeclaredItem(phase, n) ==
  LET at == CHOOSE i \in 1..Len(ITEMS) :
              /\ ITEMS[i].phase = phase
              /\ Cardinality({j \in 1..i : ITEMS[j].phase = phase}) = n
  IN ITEMS[at].item

\* the number of long rows expected before those of the k-th block record
RowsBefore(k) ==
  LET before(phase) ==
        Cardinality({i \in 1..(k - 1) : match_groups(BlockRecords[i].section_key).phase = phase})
  IN Declared("pre") * before("pre") + Declared("post") * before("post")

\* C18: for every block record the long table holds exactly one row per item
\* declared for the record's phase (7 pre, 12 post), in declaration order; the
\* row of an item the payload does not hold is a null row
C18_OneRowPerDeclaredItem ==
  tables_pc \in {"build_blocks_wide", "build_missingness_report", "detect_non_numeric", "done"} =>
    /\ Declared("pre") = 7 /\ Declared("post") = 12
    /\ Len(BlockRowSeq) = RowsBefore(Len(BlockRecords) + 1)
    /\ \A k \in 1..Len(BlockRecords) :
         LET rec == BlockRecords[k]
             g == match_groups(rec.section_key)
             rows == SubSeq(BlockRowSeq, RowsBefore(k) + 1, RowsBefore(k) + Declared(g.phase))
         IN \A n \in 1..Declared(g.phase) :
              LET r == rows[n]
              IN /\ r.participant_id = rec.participant_id
                 /\ r.condition = g.condition
                 /\ r.phase = g.phase
                 /\ r.item = DeclaredItem(g.phase, n)
                 /\ r.item \notin DOMAIN rec.payload => r.value = NaN

\* a pre record and a post record with answers: 19 rows, the answered A_6 among
\* null rows
C18_Witness ==
  /\ tables_pc = "done"
  /\ Len(BlockRecords) = 2
  /\ Len(BlockRowSeq) = 19
  /\ \E i \in BlockRows : long_df[i].item = "A_6" /\ long_df[i].value = 4
  /\ \E i \in BlockRows : long_df[i].item = "A_5" /\ long_df[i].value = NaN

\* the (participant_id, condition, phase) groups of the pre/post long rows
Groups == {[participant_id |-> long_df[i].participant_id, condition |-> long_df[i].condition,
            phase |-> long_df[i].phase] : i \in BlockRows}

\* the pre/post long rows of a group
GroupRows(g) ==
  {i \in BlockRows : /\ long_df[i].participant_id = g.participant_id
                     /\ long_df[i].condition = g.condition
                     /\ long_df[i].phase = g.phase}

\* the rows of the report for a group
ReportRows(g) ==
  {r \in missing_df : /\ r.participant_id = g.participant_id
                      /\ r.condition = g.condition
                      /\ r.phase = g.phase}

\* C20: for every group of the pre/post long rows the report has one row per
\* item, counting the group's long rows of that item and the null ones among
\* them, and exactly one __TOTAL__ row whose counts are the sums of the item
\* rows; every row of the report is of such a group and has
\* 0 <= n_missing <= n_total
C20_MissingnessReport ==
  tables_pc \in {"detect_non_numeric", "done"} =>
    /\ \A g \in Groups :
         LET items == {r \in ReportRows(g) : r.item # "__TOTAL__"}
             totals == ReportRows(g) \ items
         IN /\ \A i \in GroupRows(g) :
                 LET of == {j \in GroupRows(g) : long_df[j].item = long_df[i].item}
                 IN {r \in items : r.item = long_df[i].item}
                      = {[participant_id |-> g.participant_id, condition |-> g.condition,
                          phase |-> g.phase, item |-> long_df[i].item,
                          n_missing |-> Cardinality({j \in of : long_df[j].value = NaN}),
                          n_total |-> Cardinality(of)]}
            /\ \A r \in items : \E i \in GroupRows(g) : long_df[i].item = r.item
            /\ Cardinality(totals) = 1
            /\ \A t \in totals :
                 /\ t.n_missing = SumField(items, [r \in items |-> r.n_missing])
                 /\ t.n_total = SumField(items, [r \in items |-> r.n_total])
                 /\ t.n_total = Cardinality(GroupRows(g))
    /\ \A r \in missing_df :
         /\ [participant_id |-> r.participant_id, condition |-> r.condition,
             phase |-> r.phase] \in Groups
         /\ 0 <= r.n_missing /\ r.n_missing <= r.n_total

\* a pre group with one answered item: 7 item rows and a __TOTAL__ row of 6
\* missing out of 7
C20_Witness ==
  /\ tables_pc = "done"
  /\ \E t \in missing_df :
       /\ t.item = "__TOTAL__" /\ t.phase = "pre"
       /\ t.n_missing = 6 /\ t.n_total = 7
       /\ Cardinality({r \in missing_df :
                         /\ r.participant_id = t.participant_id
                         /\ r.condition = t.condition
                         /\ r.phase = t.phase}) = 8

(***************************************************************************)
(* Properties of load_records.                                             *)
(***************************************************************************)
\* C12: whenever the top level is a list of records, loading and resolving
\* complete without raising, whatever the records contain.
C12_LoadNeverRaises ==
  (loaded.raised # "not called" /\ raw_data.top \in {"list", "dict_data"})
    => loaded.raised = "none"

\* C13: after select_latest or latest_per_participant_section no two
\* canonical records share a (participant_id, section_key), and every key of
\* an identifiable raw submission has exactly one canonical record.
C13_OneRecordPerKey ==
  (pass >= 1 /\ resolver \in {"select_latest", "latest_per_participant_section"})
    => /\ \A m, n \in 1..Len(canonical) :
            Key(canonical[m]) = Key(canonical[n]) => m = n
       /\ \A k \in Keys :
            Cardinality({n \in 1..Len(canonical) : Key(canonical[n]) = k}) = 1
       /\ \A n \in 1..Len(canonical) : Key(canonical[n]) \in Keys

\* three submissions, two of them for the same key, were resolved to two
\* canonical records
C13_Witness ==
  /\ pass = 1
  /\ resolver \in {"select_latest", "latest_per_participant_section"}
  /\ Len(records) = 3
  /\ Cardinality(Keys) = 2
  /\ \A n \in 1..3 : Key(records[n]) \in Keys
  /\ Len(canonical) = 2

(***************************************************************************)
(* Properties of block_position.                                           *)
(***************************************************************************)
Attempted == {cond \in Conditions : attempted[cond].attempted}

\* C15: the block_position values of the conditions the participant attempted
\* are exactly 1..k, each used once, k being the number of attempted conditions
C15_PositionsAreOneToK ==
  position_pc \in {"logged", "done"} =>
    /\ {block_position[cond] : cond \in Attempted} = 1..Cardinality(Attempted)
    /\ \A c, d \in Attempted : block_position[c] = block_position[d] => c = d

\* the earliest non-null timestamp among the pre and the post record of a
\* condition, NoTimestamp when it has neither
earliest(block) ==
  IF block.t_pre = NoTimestamp THEN block.t_post
  ELSE IF block.t_post = NoTimestamp THEN block.t_pre
  ELSE Min(block.t_pre, block.t_post)

\* C25: whenever the earliest timestamp of condition X is before that of
\* condition Y, X has the smaller block_position, also when the pre record
\* carries a later timestamp than the post record
C25_OrderedByEarliestTimestamp ==
  position_pc \in {"done", "done_v2"} =>
    \A x, y \in Attempted :
      (/\ earliest(attempted[x]) # NoTimestamp
       /\ earliest(attempted[y]) # NoTimestamp
       /\ earliest(attempted[x]) < earliest(attempted[y]))
        => block_position[x] < block_position[y]

\* the letters an order declaration decodes to
Decoded == parse_order_string(order_raw)

\* the declaration decodes to exactly one occurrence of each of A, B and C
IsPermutation ==
  \A cond \in Conditions : Cardinality({i \in 1..Len(Decoded) : Decoded[i] = cond}) = 1

\* C21: a warning is logged for the participant whose order declaration does
\* not decode to exactly one occurrence of each of A, B and C, and none for a
\* permutation of A, B, C
C21_WarnsUnlessPermutation ==
  (position_pc = "logged" /\ order_raw # <<>>) =>
    (order_warnings # <<>> <=> ~IsPermutation)

(***************************************************************************)
(* Properties of the bootstrap intervals.                                  *)
(***************************************************************************)
\* C19: with the seed fixed, the interval of a cell depends on the cell's data
\* only: a cell that holds the same data in two runs has the same interval in
\* both, whatever the other cells hold and in whatever order the cells are
\* resampled
C19_IntervalOfCellAndSeedOnly ==
  boot_pc \in {"make_results_done", "plot_estimation_done"} =>
    \A c \in CellIds : cells[c] = cells_again[c] => ci[c] = ci_again[c]

(***************************************************************************)
(* Properties of the tests on degenerate data.                             *)
(***************************************************************************)
\* C22: when every participant has the same score in all conditions the
\* Friedman row has a null statistic and a null p with a note, when every
\* difference of a pair is zero the pair's row has a null statistic and a null
\* p with a note, and the statistics step raises nothing
C22_DegenerateGivesNullWithNote ==
  /\ degenerate_pc # "raised"
  /\ (degenerate_pc \in {"wilcoxon_pairs", "done"} /\ all_tied(scores)) =>
       friedman_out.chi2 = "null" /\ friedman_out.p = "null" /\ friedman_out.note # ""
  /\ degenerate_pc = "done" =>
       \A i \in 1..Len(Pairs) :
         all_zero(scores, Pairs[i][1], Pairs[i][2]) =>
           /\ wilcoxon_out.rows[i].stat = "null"
           /\ wilcoxon_out.rows[i].p = "null"
           /\ wilcoxon_out.rows[i].note # ""

(***************************************************************************)
(* Properties of the loaders on nested documents.                          *)
(***************************************************************************)
RECURSIVE Traversal(_)
\* the submissions of a document in the order a traversal meets them
Traversal(node) ==
  LET RECURSIVE below(_)
      below(kids) == IF kids = <<>> THEN <<>> ELSE Traversal(Head(kids)) \o below(Tail(kids))
  IN (IF node.kind = "dict" /\ node.id # 0 THEN <<node.id>> ELSE <<>>) \o below(node.kids)

\* C23: the loader accepts every nesting of mappings and sequences, and its
\* output is the submissions of the document, each once, in traversal order
C23_EveryNestedSubmission ==
  nested_pc = "loaded" =>
    /\ nested_out.raised = "none"
    /\ nested_out.records = Traversal(nested_doc)

(***************************************************************************)
(* Properties of the participant store.                                    *)
(***************************************************************************)
\* the rows of the participant store for one (participant_id, section_key)
RowsOf(k) ==
  {i \in 1..Len(response_sections) :
     /\ response_sections[i].participant_id = k[1]
     /\ response_sections[i].section_key = k[2]}

C28_ConsentIsSticky ==
  /\ (state_reply.status = 200 /\ state_reply.consent_ok) => state_reply.consent
  /\ consent_reply = 200 => consent_ok
  /\ ~consent_ok => ~session.consent

RECURSIVE IsSubsequence(_, _)
\* a is b with some elements left out
IsSubsequence(a, b) ==
  IF a = <<>> THEN TRUE
  ELSE IF b = <<>> THEN FALSE
  ELSE IF Head(a) = Head(b) THEN IsSubsequence(Tail(a), Tail(b))
  ELSE IsSubsequence(a, Tail(b))

\* C29: the clip_ids of every session_state response have no duplicates, are
\* ids of clips rows whose file is present, keep the order of the stored
\* playlist, and are a subsequence of the clip_ids of the previous response
\* (an id that was filtered out does not come back)
C29_ClipIdsOnlyShrink ==
  [][(SessionState /\ session.exists) =>
       /\ IsInjective(state_reply'.clip_ids)
       /\ \A i \in 1..Len(state_reply'.clip_ids) :
            \E c \in clips : c.clip_id = state_reply'.clip_ids[i] /\ c.filename \in files
       /\ IsSubsequence(state_reply'.clip_ids, session.clip_ids)
       /\ state_reply.status = 200 =>
            IsSubsequence(state_reply'.clip_ids, state_reply.clip_ids)]_vars

(***************************************************************************)
(* Properties of the ranged responses.                                     *)
(***************************************************************************)
\* C30: a 206 response has 0 <= start <= end <= size - 1, its Content-Length
\* is end - start + 1, and exactly that many bytes are streamed, for every
\* file size (0 included) and every Range header
C30_RangeWithinFile ==
  range_response.status_code = 206 =>
    /\ 0 <= range_response.start
    /\ range_response.start <= range_response.end
    /\ range_response.end <= range_request.size - 1
    /\ range_response.content_length = range_response.end - range_response.start + 1
    /\ range_response.streamed = range_response.content_length

\* the same statement for files that are not empty
RangeWithinNonEmptyFile ==
  (range_response.status_code = 206 /\ range_request.size > 0) =>
    /\ 0 <= range_response.start
    /\ range_response.start <= range_response.end
    /\ range_response.end <= range_request.size - 1
    /\ range_response.content_length = range_response.end - range_response.start + 1
    /\ range_response.streamed = range_response.content_length

====
